---- MODULE Spec2Model ----
(***************************************************************************)
(* Room/session registry, broadcast pipeline and rate limiter of the      *)
(* websocket chat boilerplate (NestJS backend, with the Spring Boot       *)
(* registry where the two differ).                                        *)
(*                                                                         *)
(* Timestamps are milliseconds since the start of the run (Date.now()).   *)
(* ISO-8601 strings of the source are kept as the millisecond value they  *)
(* denote: the code only ever compares them after new Date(...).          *)
(***************************************************************************)
EXTENDS Integers, Sequences, FiniteSets, TLC

VARIABLES
    now,            \* the clock: Date.now()
    conn,           \* per socket: "idle" (not yet connected), "connected", "closed"
    clientData,     \* per socket: client.data.username / client.data.roomId
    socketRooms,    \* per socket: the Socket.IO rooms (room_<id>) it has joined
    userSessions,   \* UsersService.userSessions : sessionId -> UserSession
    rooms,          \* RoomsService.rooms : roomId -> ChatRoom
    out,            \* events emitted by the gateway handler that ran last
    repeat,         \* TRUE iff the last two handlers were the same leave request
    removed,        \* what removeUserFromRoom returned in the handler that ran last
    rateLimitStore, \* WsThrottleGuard.rateLimitStore : clientId -> entry
    decision,       \* what the last canActivate returned and emitted
    sent,           \* per client: handleSendMessage calls since its counters were zeroed
    admittedSince,  \* per client: of those calls, the admitted ones
    admitted,       \* per client: time -> messages admitted then, over the last window
    peak,           \* per client: the highest penalty level its entry has had
    rejectedAt,     \* per client: time of its last rejection, -1 when there is none
    adminCalls,     \* calls of the limiter's admin functions so far
    backend,        \* concurrent joins: "nest" or "spring"
    registry,       \* concurrent joins: the rooms map, roomId -> reference
    heap,           \* concurrent joins: every room object created, in order
    pc,             \* concurrent joins: where each caller stands
    held,           \* concurrent joins: the reference each caller holds
    messageCounts,  \* concurrent sends: roomId -> the room's messageCount field
    accepted,       \* concurrent sends: roomId -> CHAT messages accepted so far
    loaded,         \* concurrent sends: the field value a caller has read
    springRooms,    \* Spring Boot RoomService.rooms: roomId -> room
    springOut,      \* what the last Spring Boot handler broadcast
    connectionStatus,   \* useWebSocket, per browser tab: the ConnectionStatus
    reconnectAttempts,  \* useWebSocket: reconnectAttemptsRef.current
    reconnectTimeout,   \* useWebSocket: the delay of the pending timer, 0 for none
    socket,             \* useWebSocket: the connection of the client in clientRef
    autoAttempts        \* automatic attempts since the last successful connect

chatVars == <<conn, clientData, socketRooms, userSessions, rooms, out, repeat, removed>>

limiterVars ==
    <<rateLimitStore, decision, sent, admittedSince, admitted, peak, rejectedAt, adminCalls>>

sendVars == <<messageCounts, accepted, loaded>>

dualVars == <<springRooms, springOut>>

hookVars == <<connectionStatus, reconnectAttempts, reconnectTimeout, socket, autoAttempts>>

concVars == <<backend, registry, heap, pc, held, sendVars, dualVars, hookVars>>

vars == <<now, chatVars, limiterVars, concVars>>

(***************************************************************************)
(* Bounds of the model.                                                    *)
(***************************************************************************)
MaxTicks == 1           \* the clock advances at most this many times
MaxMessages == 1        \* accepted chat messages per room

SessionIds == {"s1", "s2"}           \* socket ids (client.id)
\* the names a socket uses in its requests
UsernamesOf(c) == IF c = "s1" THEN {"alice"} ELSE {"bob"}
JoinRoomIds == {"general", "dev"}    \* room ids clients name in their requests
CleanupMinutes == {1}                \* inactiveMinutes given to the sweeps

\* message texts, as runs of characters: "hi", three blanks, 251 times "<"
Contents == {<<[ch |-> "h", n |-> 1], [ch |-> "i", n |-> 1]>>,
             <<[ch |-> " ", n |-> 3]>>,
             <<[ch |-> "<", n |-> 251]>>}

Null == "null"                       \* null / undefined

TickMs == 90 * 1000                  \* one step of the clock

(***************************************************************************)
(* Sequence helpers.                                                       *)
(***************************************************************************)
RECURSIVE SelectSeqBy(_, _)
\* Array.prototype.filter on the sessions of a room: keep those in `keep`.
SelectSeqBy(s, keep) ==
    IF s = <<>> THEN <<>>
    ELSE IF Head(s) \in keep THEN <<Head(s)>> \o SelectSeqBy(Tail(s), keep)
         ELSE SelectSeqBy(Tail(s), keep)

\* Array.prototype.findIndex by sessionId, 1-based; 0 when there is none.
FindIndex(users, sessionId) ==
    IF \E i \in 1..Len(users) : users[i].sessionId = sessionId
    THEN CHOOSE i \in 1..Len(users) :
            /\ users[i].sessionId = sessionId
            /\ \A j \in 1..(i - 1) : users[j].sessionId # sessionId
    ELSE 0

\* Array.prototype.splice(i, 1)
RemoveAt(s, i) == SubSeq(s, 1, i - 1) \o SubSeq(s, i + 1, Len(s))

Range(s) == {s[i] : i \in 1..Len(s)}

(***************************************************************************)
(* RoomsService (NestJS).                                                  *)
(***************************************************************************)
\* String.prototype.toLowerCase on the room ids of the model.
ToLowerCase(s) ==
    CASE s = "General" -> "general"
      [] s = "Lobby" -> "lobby"
      [] OTHER -> s

isDefaultRoom(roomId) == ToLowerCase(roomId) \in {"general", "lobby", "main"}

NewUserSession(sessionId, username, t, roomId) ==
    [sessionId |-> sessionId, username |-> username, joinedAt |-> t,
     lastActivity |-> t, isActive |-> TRUE, roomId |-> roomId]

\* The entry pushed on room.activeUsers.  joinedAt, isActive and roomId of the
\* entry are written once and never read; they are left out.
RoomUser(sessionId, username, t) ==
    [sessionId |-> sessionId, username |-> username, lastActivity |-> t]

\* name, description, createdAt and isPrivate are display metadata, left out.
NewRoom(roomId) == [id |-> roomId, activeUsers |-> <<>>, messageCount |-> 0]

\* The registry as constructed: createDefaultRoom().
createDefaultRoom == ("general" :> NewRoom("general"))

createDefaultRoomWithId(rs, roomId) ==
    [r \in (DOMAIN rs) \cup {roomId} |-> IF r = roomId THEN NewRoom(roomId) ELSE rs[r]]

\* The room as a one-element sequence; <<>> is the null the call returns.
getRoom(rs, roomId) == IF roomId \in DOMAIN rs THEN <<rs[roomId]>> ELSE <<>>

\* addUserToRoom without the search for an existing entry
addUserToRoom_push(rs, roomId, username, sessionId, t) ==
    LET rs1 == IF roomId \in DOMAIN rs THEN rs ELSE createDefaultRoomWithId(rs, roomId)
    IN  [rs1 EXCEPT ![roomId].activeUsers = Append(@, RoomUser(sessionId, username, t))]

addUserToRoom(rs, roomId, username, sessionId, t) ==
    LET rs1 == IF roomId \in DOMAIN rs THEN rs ELSE createDefaultRoomWithId(rs, roomId)
        idx == FindIndex(rs1[roomId].activeUsers, sessionId)
    IN  IF idx # 0
        THEN [rs1 EXCEPT ![roomId].activeUsers[idx] =
                 [@ EXCEPT !.username = username, !.lastActivity = t]]
        ELSE [rs1 EXCEPT ![roomId].activeUsers =
                 Append(@, RoomUser(sessionId, username, t))]

\* removeUserFromRoom without the deletion of the emptied room
removeUserFromRoom_keep(rs, roomId, sessionId) ==
    IF roomId \notin DOMAIN rs THEN [rooms |-> rs, removed |-> FALSE]
    ELSE LET idx == FindIndex(rs[roomId].activeUsers, sessionId)
         IN  IF idx = 0 THEN [rooms |-> rs, removed |-> FALSE]
             ELSE [rooms |-> [rs EXCEPT ![roomId].activeUsers = RemoveAt(@, idx)],
                   removed |-> TRUE]

\* Returns the registry after the call and the boolean the call returns.
removeUserFromRoom(rs, roomId, sessionId) ==
    IF roomId \notin DOMAIN rs THEN [rooms |-> rs, removed |-> FALSE]
    ELSE LET idx == FindIndex(rs[roomId].activeUsers, sessionId)
             left == RemoveAt(rs[roomId].activeUsers, idx)
         IN  IF idx = 0 THEN [rooms |-> rs, removed |-> FALSE]
             ELSE IF Len(left) = 0 /\ ~isDefaultRoom(roomId)
                  THEN [rooms |-> [r \in (DOMAIN rs) \ {roomId} |-> rs[r]],
                        removed |-> TRUE]
                  ELSE [rooms |-> [rs EXCEPT ![roomId].activeUsers = left],
                        removed |-> TRUE]

\* incrementMessageCount without the increment
incrementMessageCount_skip(rs, roomId) == rs

incrementMessageCount(rs, roomId) ==
    IF roomId \in DOMAIN rs THEN [rs EXCEPT ![roomId].messageCount = @ + 1] ELSE rs

cleanupInactiveUsers(rs, inactiveMinutes, t) ==
    LET cutoffTime == t - inactiveMinutes * 60 * 1000
        Kept(r) == SelectSeqBy(rs[r].activeUsers,
                               {u \in Range(rs[r].activeUsers) : u.lastActivity > cutoffTime})
        stay == {r \in DOMAIN rs : ~(Len(Kept(r)) = 0 /\ ~isDefaultRoom(r))}
    IN  [r \in stay |-> [rs[r] EXCEPT !.activeUsers = Kept(r)]]

(***************************************************************************)
(* UsersService (NestJS).                                                  *)
(***************************************************************************)
createUserSession(us, sessionId, username, roomId, t) ==
    [s \in (DOMAIN us) \cup {sessionId} |->
        IF s = sessionId THEN NewUserSession(sessionId, username, t, roomId) ELSE us[s]]

removeUserSession(us, sessionId) == [s \in (DOMAIN us) \ {sessionId} |-> us[s]]

updateUserActivity(us, sessionId, t) ==
    IF sessionId \in DOMAIN us THEN [us EXCEPT ![sessionId].lastActivity = t] ELSE us

cleanupStaleSessions(us, inactiveMinutes, t) ==
    LET cutoffTime == t - inactiveMinutes * 60 * 1000
    IN  [s \in {x \in DOMAIN us : ~(us[x].lastActivity < cutoffTime)} |-> us[s]]

(***************************************************************************)
(* ChatService (NestJS): message validation and sanitization.             *)
(*                                                                         *)
(* A string is kept as a sequence of runs [ch, n]: n copies of the token   *)
(* ch, where a token is one character of the raw text or the entity that   *)
(* replaces it.                                                            *)
(***************************************************************************)
Run(ch, n) == [ch |-> ch, n |-> n]

\* the six chained String.replace calls, character by character
Escape(ch) ==
    CASE ch = "<" -> "&lt;"
      [] ch = ">" -> "&gt;"
      [] ch = "\"" -> "&quot;"
      [] ch = "'" -> "&#x27;"
      [] ch = "/" -> "&#x2F;"
      [] ch = "\\" -> "&#x5C;"
      [] OTHER -> ch

\* number of characters of a token
TokLen(tok) ==
    CASE tok \in {"&lt;", "&gt;"} -> 4
      [] tok \in {"&quot;", "&#x27;", "&#x2F;", "&#x5C;"} -> 6
      [] OTHER -> 1

RECURSIVE StrLen(_)
StrLen(s) == IF s = <<>> THEN 0 ELSE Head(s).n * TokLen(Head(s).ch) + StrLen(Tail(s))

IsSpace(run) == run.ch = " " \/ run.n = 0

RECURSIVE TrimStart(_)
TrimStart(s) == IF s # <<>> /\ IsSpace(Head(s)) THEN TrimStart(Tail(s)) ELSE s

RECURSIVE TrimEnd(_)
TrimEnd(s) ==
    IF s # <<>> /\ IsSpace(s[Len(s)]) THEN TrimEnd(SubSeq(s, 1, Len(s) - 1)) ELSE s

\* String.prototype.trim
Trim(s) == TrimEnd(TrimStart(s))

sanitizeContent(content) ==
    Trim([i \in 1..Len(content) |-> Run(Escape(content[i].ch), content[i].n)])

WordChars == {"a", "b", "c", "e", "i", "l", "o", "y", "_", "0"}

\* /^[a-zA-Z0-9_]{3,50}$/ on a name given as runs of characters
usernamePattern(name) ==
    /\ StrLen(name) >= 3 /\ StrLen(name) <= 50
    /\ \A i \in 1..Len(name) : name[i].ch \in WordChars

\* the characters of the names and room ids of the model
Chars(s) ==
    CASE s = "alice" -> <<Run("a", 1), Run("l", 1), Run("i", 1), Run("c", 1), Run("e", 1)>>
      [] s = "bob" -> <<Run("b", 1), Run("o", 1), Run("b", 1)>>
      [] s = "bobby" -> <<Run("b", 1), Run("o", 1), Run("b", 2), Run("y", 1)>>
      [] OTHER -> <<Run("x", 5)>>

isValidMessage(content, sender, roomId) ==
    /\ Trim(content) # <<>> /\ Trim(Chars(sender)) # <<>> /\ Trim(Chars(roomId)) # <<>>
    /\ StrLen(content) >= 1 /\ StrLen(content) <= 1000
    /\ usernamePattern(Chars(sender))

(***************************************************************************)
(* ChatGateway (NestJS).  server.to(room).emit reaches the sockets that    *)
(* are in the Socket.IO room when the event is emitted.                    *)
(***************************************************************************)
InSocketRoom(sr, roomId) == {s \in SessionIds : roomId \in sr[s]}

Event(ev, type, roomId, to) == [ev |-> ev, type |-> type, room |-> roomId, to |-> to]

ChatInit ==
    /\ conn = [c \in SessionIds |-> "idle"]
    /\ clientData = [c \in SessionIds |-> [username |-> Null, roomId |-> Null]]
    /\ socketRooms = [c \in SessionIds |-> {}]
    /\ userSessions = <<>>
    /\ rooms = createDefaultRoom
    /\ out = <<>>
    /\ repeat = FALSE
    /\ removed = FALSE

handleConnection(c) ==
    /\ conn[c] = "idle"
    /\ conn' = [conn EXCEPT ![c] = "connected"]
    /\ clientData' = [clientData EXCEPT ![c] = [username |-> Null, roomId |-> Null]]
    /\ out' = <<Event("connection", "connected", Null, {c})>>
    /\ repeat' = FALSE
    /\ removed' = FALSE
    /\ UNCHANGED <<now, socketRooms, userSessions, rooms>>
    /\ UNCHANGED <<limiterVars, concVars>>

\* The body of handleUserJoin.
JoinEffects(c, roomId, username) ==
    /\ conn[c] = "connected"
    /\ clientData' = [clientData EXCEPT ![c] = [username |-> username, roomId |-> roomId]]
    /\ socketRooms' = [socketRooms EXCEPT ![c] = @ \cup {roomId}]
    /\ userSessions' = createUserSession(userSessions, c, username, roomId, now)
    /\ rooms' = addUserToRoom(rooms, roomId, username, c, now)
    /\ out' = <<Event("message", "JOIN", roomId, InSocketRoom(socketRooms', roomId)),
                Event("userStatus", "joined", roomId, InSocketRoom(socketRooms', roomId)),
                Event("joinSuccess", "", roomId, {c})>>
    /\ repeat' = FALSE
    /\ removed' = FALSE
    /\ UNCHANGED <<now, conn>>

handleUserJoin(c, roomId, username) ==
    /\ JoinEffects(c, roomId, username)
    /\ UNCHANGED <<limiterVars, concVars>>

\* The body of handleUserLeave, shared by the leave request and by disconnect.
LeaveEffects(c, roomId, sr) ==
    /\ LET result == removeUserFromRoom(rooms, roomId, c)
       IN  rooms' = result.rooms /\ removed' = result.removed
    /\ out' = <<Event("message", "LEAVE", roomId, InSocketRoom(sr, roomId)),
                Event("userStatus", "left", roomId, InSocketRoom(sr, roomId)),
                Event("leaveSuccess", "", roomId, {c} \cap {s \in SessionIds : conn'[s] = "connected"})>>

\* the events `o` are those of a leave request of socket c for roomId
LeaveRequested(o, c, roomId) ==
    Len(o) = 3 /\ o[3] = Event("leaveSuccess", "", roomId, {c})

\* The body of the leave request.
LeaveRequestEffects(c, roomId, username) ==
    /\ conn[c] = "connected"
    /\ socketRooms' = [socketRooms EXCEPT ![c] = @ \ {roomId}]
    /\ conn' = conn
    /\ LeaveEffects(c, roomId, socketRooms')
    /\ clientData' = [clientData EXCEPT ![c].roomId = Null]
    /\ repeat' = LeaveRequested(out, c, roomId)
    /\ UNCHANGED <<now, userSessions>>

handleUserLeave(c, roomId, username) ==
    /\ LeaveRequestEffects(c, roomId, username)
    /\ UNCHANGED <<limiterVars, concVars>>

handleDisconnect(c) ==
    /\ conn[c] = "connected"
    /\ conn' = [conn EXCEPT ![c] = "closed"]
    \* Socket.IO has taken the socket out of its rooms before the handler runs
    /\ socketRooms' = [socketRooms EXCEPT ![c] = {}]
    /\ IF clientData[c].username # Null /\ clientData[c].roomId # Null
       THEN /\ LeaveEffects(c, clientData[c].roomId, socketRooms')
            /\ clientData' = [clientData EXCEPT ![c].roomId = Null]
       ELSE /\ rooms' = rooms
            /\ removed' = FALSE
            /\ out' = <<>>
            /\ clientData' = clientData
    /\ userSessions' = IF clientData[c].username # Null
                       THEN removeUserSession(userSessions, c)
                       ELSE userSessions
    /\ repeat' = FALSE
    /\ UNCHANGED now
    /\ UNCHANGED <<limiterVars, concVars>>

RECURSIVE TotalOver(_, _)
TotalOver(rs, S) ==
    IF S = {} THEN 0
    ELSE LET r == CHOOSE x \in S : TRUE IN rs[r].messageCount + TotalOver(rs, S \ {r})

\* chat messages accepted so far, over the rooms that exist
TotalMessages(rs) == TotalOver(rs, DOMAIN rs)

\* The body of handleSendMessage.
SendEffects(c, roomId, sender, content) ==
    /\ conn[c] = "connected"
    /\ TotalMessages(rooms) < MaxMessages
    /\ LET touched == updateUserActivity(userSessions, c, now)
           sanitizedContent == sanitizeContent(content)
       IN  IF isValidMessage(sanitizedContent, sender, roomId)
           THEN /\ rooms' = incrementMessageCount(rooms, roomId)
                /\ userSessions' = updateUserActivity(touched, c, now)
                /\ out' = <<Event("message", "CHAT", roomId,
                                  InSocketRoom(socketRooms, roomId))>>
           ELSE /\ rooms' = rooms
                /\ userSessions' = touched
                /\ out' = <<Event("error", "", Null, {c})>>
    /\ repeat' = FALSE
    /\ removed' = FALSE
    /\ UNCHANGED <<now, conn, clientData, socketRooms>>

handleSendMessage(c, roomId, sender, content) ==
    /\ SendEffects(c, roomId, sender, content)
    /\ UNCHANGED <<limiterVars, concVars>>

SweepSessions(m) ==
    /\ userSessions' = cleanupStaleSessions(userSessions, m, now)
    /\ out' = <<>>
    /\ repeat' = FALSE
    /\ removed' = FALSE
    /\ UNCHANGED <<now, conn, clientData, socketRooms, rooms>>
    /\ UNCHANGED <<limiterVars, concVars>>

\* The body of the room sweep.
SweepRoomsEffects(m) ==
    /\ m >= 1 /\ m <= 1440
    /\ rooms' = cleanupInactiveUsers(rooms, m, now)
    /\ out' = <<>>
    /\ repeat' = FALSE
    /\ removed' = FALSE
    /\ UNCHANGED <<now, conn, clientData, socketRooms, userSessions>>

SweepRooms(m) ==
    /\ SweepRoomsEffects(m)
    /\ UNCHANGED <<limiterVars, concVars>>

Tick ==
    /\ now + TickMs <= MaxTicks * TickMs
    /\ now' = now + TickMs
    /\ UNCHANGED chatVars
    /\ UNCHANGED <<limiterVars, concVars>>

(***************************************************************************)
(* WsThrottleGuard (NestJS): the rate limiter.                             *)
(***************************************************************************)
MaxShortTicks == 2      \* short steps of the limiter's clock
MaxIdleTicks == 1       \* long idle periods of the limiter's clock
MaxSends == 32          \* handleSendMessage calls between two zeroings of the counters

ThrottleClients == {"s1"}
ThrottleEvents == {"handleSendMessage", "handleUserJoin"}
ThrottleTickMs == 40 * 1000           \* a short step: less than the base window
IdleMs == 440 * 1000                  \* an idle period: more than 5 min + one doubled window

limits ==
    [messages |-> [count |-> 30, window |-> 60 * 1000],
     joins |-> [count |-> 5, window |-> 60 * 1000],
     penalty |-> [multiplier |-> 2, maxPenalties |-> 5, resetTime |-> 5 * 60 * 1000]]

Min(a, b) == IF a <= b THEN a ELSE b
Max(a, b) == IF a >= b THEN a ELSE b

RECURSIVE Pow(_, _)
\* Math.pow on naturals
Pow(b, e) == IF e = 0 THEN 1 ELSE b * Pow(b, e - 1)

\* getWindowTime without the ceiling
getWindowTime_unbounded(penalties) ==
    limits.messages.window * Pow(limits.penalty.multiplier, penalties)

\* getWindowTime without the penalty multiplier
getWindowTime_base(penalties) ==
    limits.messages.window

getWindowTime(penalties) ==
    LET baseWindow == limits.messages.window
        multiplier == Pow(limits.penalty.multiplier, penalties)
    IN  Min(baseWindow * multiplier, 10 * 60 * 1000)

\* checkLimits refusing only above the limit, not at it
checkLimits_above(eventName, entry) ==
    IF eventName \in {"handleUserJoin", "handleUserLeave"}
    THEN IF entry.joinCount > limits.joins.count
         THEN [allowed |-> FALSE, entry |-> entry]
         ELSE [allowed |-> TRUE, entry |-> [entry EXCEPT !.joinCount = @ + 1]]
    ELSE IF entry.messageCount > limits.messages.count
         THEN [allowed |-> FALSE, entry |-> entry]
         ELSE [allowed |-> TRUE, entry |-> [entry EXCEPT !.messageCount = @ + 1]]

\* checkLimits counting the calls it refuses as well
checkLimits_counting(eventName, entry) ==
    IF eventName \in {"handleUserJoin", "handleUserLeave"}
    THEN [allowed |-> entry.joinCount < limits.joins.count,
          entry |-> [entry EXCEPT !.joinCount = @ + 1]]
    ELSE [allowed |-> entry.messageCount < limits.messages.count,
          entry |-> [entry EXCEPT !.messageCount = @ + 1]]

\* Returns the boolean the call returns and the entry as the call leaves it.
checkLimits(eventName, entry) ==
    IF eventName \in {"handleUserJoin", "handleUserLeave"}
    THEN IF entry.joinCount >= limits.joins.count
         THEN [allowed |-> FALSE, entry |-> entry]
         ELSE [allowed |-> TRUE, entry |-> [entry EXCEPT !.joinCount = @ + 1]]
    ELSE IF entry.messageCount >= limits.messages.count
         THEN [allowed |-> FALSE, entry |-> entry]
         ELSE [allowed |-> TRUE, entry |-> [entry EXCEPT !.messageCount = @ + 1]]

\* The entry canActivate creates for a client it does not know.
NewEntry(t) ==
    [messageCount |-> 0, joinCount |-> 0, resetTime |-> t + limits.messages.window,
     penalties |-> 0, lastActivity |-> t]

\* WindowReset leaving the counters as they are when the window has passed
WindowReset_none(entry, t) ==
    entry

\* "Reset counters if window has passed", with the penalty reduction inside it.
WindowReset(entry, t) ==
    IF t > entry.resetTime
    THEN LET windowTime == getWindowTime(entry.penalties)
             zeroed == [entry EXCEPT !.messageCount = 0, !.joinCount = 0,
                                     !.resetTime = t + windowTime]
         IN  IF t > zeroed.resetTime + limits.penalty.resetTime
             THEN [zeroed EXCEPT !.penalties = Max(0, @ - 1)]
             ELSE zeroed
    ELSE entry

\* Penalize with the reset time taken from the level before the increment
Penalize_stale(entry, t) ==
    LET penalties == Min(entry.penalties + 1, limits.penalty.maxPenalties)
    IN  [entry EXCEPT !.penalties = penalties,
                      !.resetTime = t + getWindowTime(entry.penalties)]

\* Penalize without the cap on the penalty level
Penalize_uncapped(entry, t) ==
    LET penalties == entry.penalties + 1
    IN  [entry EXCEPT !.penalties = penalties, !.resetTime = t + getWindowTime(penalties)]

\* Penalize raising the level and leaving the reset time where it was
Penalize_keep(entry, t) ==
    [entry EXCEPT !.penalties = Min(entry.penalties + 1, limits.penalty.maxPenalties)]

\* "Increase penalties for repeat offenders" and "Extend reset time with penalty".
Penalize(entry, t) ==
    LET penalties == Min(entry.penalties + 1, limits.penalty.maxPenalties)
    IN  [entry EXCEPT !.penalties = penalties, !.resetTime = t + getWindowTime(penalties)]

NoDecision ==
    [client |-> Null, event |-> Null, allowed |-> TRUE, resetTime |-> 0,
     penalties |-> 0, timestamp |-> 0]

\* the entries of `log` younger than one base window at time t
Recent(log, t) == [u \in {x \in DOMAIN log : t - x < limits.messages.window} |-> log[u]]

\* `log` with one more message admitted at time t
Logged(log, t) ==
    [u \in (DOMAIN log) \cup {t} |-> IF u = t THEN (IF t \in DOMAIN log THEN log[t] ELSE 0) + 1
                                     ELSE log[u]]

LimiterInit ==
    /\ rateLimitStore = <<>>
    /\ decision = NoDecision
    /\ sent = [c \in ThrottleClients |-> 0]
    /\ admittedSince = [c \in ThrottleClients |-> 0]
    /\ admitted = [c \in ThrottleClients |-> <<>>]
    /\ peak = [c \in ThrottleClients |-> 0]
    /\ rejectedAt = [c \in ThrottleClients |-> -1]
    /\ adminCalls = 0

\* The body of canActivate on the store `store` at time t: whether the call is
\* allowed, the entry it leaves, and whether it found the counters at zero
\* (a new entry or an expired window).
Activation(store, c, eventName, t) ==
    LET known == c \in DOMAIN store
        entry == [(IF known THEN store[c] ELSE NewEntry(t)) EXCEPT !.lastActivity = t]
        checked == checkLimits(eventName, WindowReset(entry, t))
    IN  [allowed |-> checked.allowed,
         entry |-> IF checked.allowed THEN checked.entry ELSE Penalize(checked.entry, t),
         fresh |-> ~known \/ t > entry.resetTime]

\* rateLimitStore.set(clientId, entry)
SetEntry(store, c, entry) ==
    [x \in (DOMAIN store) \cup {c} |-> IF x = c THEN entry ELSE store[x]]

canActivate(c, eventName) ==
    LET act == Activation(rateLimitStore, c, eventName, now)
        checked == act
        final == act.entry
        fresh == act.fresh
        isSend == eventName = "handleSendMessage"
        before == IF fresh THEN 0 ELSE sent[c]
        beforeAdmitted == IF fresh THEN 0 ELSE admittedSince[c]
    IN  /\ isSend => before < MaxSends
        /\ rateLimitStore' = SetEntry(rateLimitStore, c, final)
        /\ decision' = [client |-> c, event |-> eventName, allowed |-> checked.allowed,
                        resetTime |-> final.resetTime, penalties |-> final.penalties,
                        timestamp |-> now]
        /\ sent' = [sent EXCEPT ![c] = IF isSend THEN before + 1 ELSE before]
        /\ admittedSince' = [admittedSince EXCEPT ![c] =
                                IF isSend /\ checked.allowed THEN beforeAdmitted + 1
                                ELSE beforeAdmitted]
        /\ admitted' = [admitted EXCEPT ![c] =
                           IF isSend /\ checked.allowed THEN Logged(@, now) ELSE @]
        /\ peak' = [peak EXCEPT ![c] = Max(@, final.penalties)]
        /\ rejectedAt' = [rejectedAt EXCEPT ![c] = IF checked.allowed THEN @ ELSE now]
        /\ UNCHANGED <<now, adminCalls, chatVars, concVars>>

MaxAdminCalls == 1      \* calls of the limiter's admin functions

resetClientPenalties(c) ==
    /\ adminCalls < MaxAdminCalls
    /\ adminCalls' = adminCalls + 1
    /\ IF c \in DOMAIN rateLimitStore
       THEN /\ rateLimitStore' =
                   [rateLimitStore EXCEPT ![c] =
                       [@ EXCEPT !.penalties = 0, !.messageCount = 0, !.joinCount = 0,
                                 !.resetTime = now + limits.messages.window]]
            /\ sent' = [sent EXCEPT ![c] = 0]
            /\ admittedSince' = [admittedSince EXCEPT ![c] = 0]
       ELSE UNCHANGED <<rateLimitStore, sent, admittedSince>>
    /\ decision' = NoDecision
    /\ UNCHANGED <<now, admitted, peak, rejectedAt, chatVars, concVars>>

clearAllData ==
    /\ adminCalls < MaxAdminCalls
    /\ adminCalls' = adminCalls + 1
    /\ rateLimitStore' = <<>>
    /\ decision' = NoDecision
    /\ sent' = [c \in ThrottleClients |-> 0]
    /\ admittedSince' = [c \in ThrottleClients |-> 0]
    /\ peak' = [c \in ThrottleClients |-> 0]
    /\ rejectedAt' = [c \in ThrottleClients |-> -1]
    /\ UNCHANGED <<now, admitted, chatVars, concVars>>

maxAge == 30 * 60 * 1000

\* cleanup without the test of the entry's age
cleanup_any ==
    /\ rateLimitStore' = <<>>
    /\ sent' = [c \in DOMAIN sent |-> 0]
    /\ admittedSince' = [c \in DOMAIN admittedSince |-> 0]
    /\ peak' = [c \in DOMAIN peak |-> 0]
    /\ rejectedAt' = [c \in DOMAIN rejectedAt |-> -1]
    /\ UNCHANGED <<now, decision, admitted, adminCalls, chatVars, concVars>>

\* The timer's job, every 5 minutes: drop the entries idle for more than
\* maxAge.  What the model remembers of a dropped entry goes with it.
cleanup ==
    LET old == {c \in DOMAIN rateLimitStore : now - rateLimitStore[c].lastActivity > maxAge}
    IN  /\ rateLimitStore' = [c \in (DOMAIN rateLimitStore) \ old |-> rateLimitStore[c]]
        /\ sent' = [c \in DOMAIN sent |-> IF c \in old THEN 0 ELSE sent[c]]
        /\ admittedSince' = [c \in DOMAIN admittedSince |->
                                IF c \in old THEN 0 ELSE admittedSince[c]]
        /\ peak' = [c \in DOMAIN peak |-> IF c \in old THEN 0 ELSE peak[c]]
        /\ rejectedAt' = [c \in DOMAIN rejectedAt |-> IF c \in old THEN -1 ELSE rejectedAt[c]]
        /\ UNCHANGED <<now, decision, admitted, adminCalls, chatVars, concVars>>

MaxLongTicks == 2       \* long steps of the clock, for the limiter's cleanup
LongMs == 16 * 60 * 1000

\* The clock in steps that let an entry grow old.
LongTick ==
    /\ now + LongMs <= MaxLongTicks * LongMs
    /\ now' = now + LongMs
    /\ admitted' = [c \in DOMAIN admitted |-> Recent(admitted[c], now')]
    /\ UNCHANGED <<rateLimitStore, decision, sent, admittedSince, peak, rejectedAt>>
    /\ UNCHANGED <<adminCalls, chatVars, concVars>>

\* The limiter's clock: short steps first, then idle periods.
ThrottleTick ==
    /\ \/ /\ now + ThrottleTickMs <= MaxShortTicks * ThrottleTickMs
          /\ now' = now + ThrottleTickMs
       \/ /\ now + IdleMs <= MaxShortTicks * ThrottleTickMs + MaxIdleTicks * IdleMs
          /\ now' = now + IdleMs
    /\ admitted' = [c \in ThrottleClients |-> Recent(admitted[c], now')]
    /\ UNCHANGED <<rateLimitStore, decision, sent, admittedSince, peak, rejectedAt>>
    /\ UNCHANGED <<adminCalls, chatVars, concVars>>

(***************************************************************************)
(* useWebSocket (frontend): the connection of one browser tab.  The STOMP  *)
(* client is the environment: a connection that was asked for opens or     *)
(* closes, an open one closes, and the hook hears of it in onConnect and   *)
(* onWebSocketClose.  Delays are in 1/256 ms, so that 1.5^n stays whole.   *)
(***************************************************************************)
Tabs == {"tab1", "tab2"}
CloseCodes == {1000, 1006}

RECONNECT_DELAY == 3000 * 256
MAX_RECONNECT_ATTEMPTS == 5
MaxDelay == 30000 * 256

\* getReconnectDelay without the backoff
getReconnectDelay_flat(attempt) == Min(RECONNECT_DELAY, MaxDelay)

\* RECONNECT_DELAY * Math.pow(1.5, attempt), capped
getReconnectDelay(attempt) ==
    Min((RECONNECT_DELAY * Pow(3, attempt)) \div Pow(2, attempt), MaxDelay)

HookIdle ==
    /\ connectionStatus = [t \in Tabs |-> "DISCONNECTED"]
    /\ reconnectAttempts = [t \in Tabs |-> 0]
    /\ reconnectTimeout = [t \in Tabs |-> 0]
    /\ socket = [t \in Tabs |-> "none"]
    /\ autoAttempts = [t \in Tabs |-> 0]

\* connect(), called when no connection and no reconnection is under way
HookConnect(t) ==
    /\ socket[t] = "none" /\ reconnectTimeout[t] = 0
    /\ connectionStatus' = [connectionStatus EXCEPT ![t] = "CONNECTING"]
    /\ socket' = [socket EXCEPT ![t] = "opening"]
    /\ UNCHANGED <<reconnectAttempts, reconnectTimeout, autoAttempts>>
    /\ UNCHANGED <<now, chatVars, limiterVars, backend, registry, heap, pc, held, sendVars, dualVars>>

onConnect(t) ==
    /\ socket[t] = "opening"
    /\ socket' = [socket EXCEPT ![t] = "open"]
    /\ connectionStatus' = [connectionStatus EXCEPT ![t] = "CONNECTED"]
    /\ reconnectAttempts' = [reconnectAttempts EXCEPT ![t] = 0]
    /\ reconnectTimeout' = [reconnectTimeout EXCEPT ![t] = 0]
    /\ autoAttempts' = [autoAttempts EXCEPT ![t] = 0]
    /\ UNCHANGED <<now, chatVars, limiterVars, backend, registry, heap, pc, held, sendVars, dualVars>>

\* The handler stays with the client that disconnect() deactivates: it runs
\* when that client's connection ("closing") has closed.
onWebSocketClose(t, code) ==
    /\ socket[t] \in {"opening", "open", "closing"}
    /\ socket' = [socket EXCEPT ![t] = "none"]
    /\ IF code # 1000 /\ reconnectAttempts[t] < MAX_RECONNECT_ATTEMPTS
       THEN /\ connectionStatus' = [connectionStatus EXCEPT ![t] = "RECONNECTING"]
            /\ reconnectTimeout' = [reconnectTimeout EXCEPT ![t] =
                                       getReconnectDelay(reconnectAttempts[t])]
       ELSE /\ connectionStatus' =
                   IF reconnectAttempts[t] >= MAX_RECONNECT_ATTEMPTS
                   THEN [connectionStatus EXCEPT ![t] = "ERROR"]
                   ELSE connectionStatus
            /\ reconnectTimeout' = reconnectTimeout
    /\ UNCHANGED <<reconnectAttempts, autoAttempts>>
    /\ UNCHANGED <<now, chatVars, limiterVars, backend, registry, heap, pc, held, sendVars, dualVars>>

\* the callback of setTimeout in onWebSocketClose
ReconnectTimer(t) ==
    /\ reconnectTimeout[t] # 0
    /\ reconnectTimeout' = [reconnectTimeout EXCEPT ![t] = 0]
    /\ reconnectAttempts' = [reconnectAttempts EXCEPT ![t] = @ + 1]
    /\ autoAttempts' = [autoAttempts EXCEPT ![t] = @ + 1]
    /\ socket' = [socket EXCEPT ![t] = "opening"]
    /\ UNCHANGED connectionStatus
    /\ UNCHANGED <<now, chatVars, limiterVars, backend, registry, heap, pc, held, sendVars, dualVars>>

\* disconnect(): deactivate() starts the shutdown of the client's connection
\* and clientRef lets go of the client
HookDisconnect(t) ==
    /\ reconnectTimeout' = [reconnectTimeout EXCEPT ![t] = 0]
    /\ reconnectAttempts' = [reconnectAttempts EXCEPT ![t] = MAX_RECONNECT_ATTEMPTS]
    /\ socket' = [socket EXCEPT ![t] = IF @ = "none" THEN "none" ELSE "closing"]
    /\ connectionStatus' = [connectionStatus EXCEPT ![t] = "DISCONNECTED"]
    /\ UNCHANGED autoAttempts
    /\ UNCHANGED <<now, chatVars, limiterVars, backend, registry, heap, pc, held, sendVars, dualVars>>

(***************************************************************************)
(* Concurrent first joins to room ids the registry does not know.          *)
(*                                                                         *)
(* Room objects live in `heap`; the registry and the callers hold          *)
(* references (indices) to them.  NestJS runs one caller at a time and a   *)
(* caller gives up the thread at an await; Spring Boot runs the callers on *)
(* threads, with ConcurrentHashMap operations as the atomic steps.         *)
(***************************************************************************)
ConcCallers == {"t1", "t2", "t3"}
ConcRoomIds == {"r1", "r2"}
Backends == {"nest", "spring"}

\* a room object; `key` is the room id it was created for
NewRoomObject(roomId) == [key |-> roomId, activeUsers |-> <<>>]

\* find by sessionId, push when there is none (NestJS);
\* Set.add under equals-by-sessionId (Spring Boot)
addUser(room, sessionId) ==
    IF \E i \in 1..Len(room.activeUsers) : room.activeUsers[i] = sessionId
    THEN room
    ELSE [room EXCEPT !.activeUsers = Append(@, sessionId)]

\* rooms.set(roomId, room): the registry and the heap after the call
PutRoom(reg, hp, roomId) ==
    [registry |-> [r \in (DOMAIN reg) \cup {roomId} |->
                      IF r = roomId THEN Len(hp) + 1 ELSE reg[r]],
     heap |-> Append(hp, NewRoomObject(roomId))]

\* Map.put in place of computeIfAbsent
getOrCreateDefaultRoom_put(reg, hp, roomId) ==
    PutRoom(reg, hp, roomId)

\* rooms.computeIfAbsent(roomId, ...): one atomic step of ConcurrentHashMap
getOrCreateDefaultRoom(reg, hp, roomId) ==
    IF roomId \in DOMAIN reg THEN [registry |-> reg, heap |-> hp]
    ELSE PutRoom(reg, hp, roomId)

InFlight == {"awaiting", "holding"}

ConcIdle ==
    /\ backend = "nest"
    /\ registry = <<>>
    /\ heap = <<>>
    /\ pc = <<>>
    /\ held = <<>>
    /\ messageCounts = <<>>
    /\ accepted = <<>>
    /\ loaded = <<>>
    /\ springRooms = <<>>
    /\ springOut = <<>>
    /\ HookIdle

\* RoomsService.addUserToRoom up to its first await, or to its end when it
\* meets none.
NestAddUserToRoom(t, roomId) ==
    /\ backend = "nest" /\ pc[t] = "start"
    /\ IF roomId \in DOMAIN registry
       THEN /\ heap' = [heap EXCEPT ![registry[roomId]] = addUser(@, t)]
            /\ registry' = registry
            /\ held' = [held EXCEPT ![t] = [roomId |-> roomId, room |-> registry[roomId]]]
            /\ pc' = [pc EXCEPT ![t] = "done"]
       ELSE /\ registry' = PutRoom(registry, heap, roomId).registry
            /\ heap' = PutRoom(registry, heap, roomId).heap
            /\ held' = [held EXCEPT ![t] = [roomId |-> roomId, room |-> Len(heap) + 1]]
            /\ pc' = [pc EXCEPT ![t] = "awaiting"]
    /\ UNCHANGED <<now, backend, sendVars, dualVars, hookVars, chatVars, limiterVars>>

\* RoomsService.addUserToRoom after `await this.createDefaultRoomWithId(roomId)`.
NestResume(t) ==
    /\ backend = "nest" /\ pc[t] = "awaiting"
    /\ heap' = [heap EXCEPT ![held[t].room] = addUser(@, t)]
    /\ pc' = [pc EXCEPT ![t] = "done"]
    /\ UNCHANGED <<now, backend, registry, held, sendVars, dualVars, hookVars, chatVars, limiterVars>>

\* RoomService.addUserToRoom: `ChatRoom room = getOrCreateDefaultRoom(roomId)`.
SpringGetOrCreate(t, roomId) ==
    /\ backend = "spring" /\ pc[t] = "start"
    /\ registry' = getOrCreateDefaultRoom(registry, heap, roomId).registry
    /\ heap' = getOrCreateDefaultRoom(registry, heap, roomId).heap
    /\ held' = [held EXCEPT ![t] = [roomId |-> roomId, room |-> registry'[roomId]]]
    /\ pc' = [pc EXCEPT ![t] = "holding"]
    /\ UNCHANGED <<now, backend, sendVars, dualVars, hookVars, chatVars, limiterVars>>

\* RoomService.addUserToRoom: `room.addUser(userSession)`.
SpringAddUser(t) ==
    /\ backend = "spring" /\ pc[t] = "holding"
    /\ heap' = [heap EXCEPT ![held[t].room] = addUser(@, t)]
    /\ pc' = [pc EXCEPT ![t] = "done"]
    /\ UNCHANGED <<now, backend, registry, held, sendVars, dualVars, hookVars, chatVars, limiterVars>>

(***************************************************************************)
(* Concurrent sends.  Each caller is one client sending CHAT messages; the *)
(* callers have no session record and have joined no room, so the activity *)
(* touch finds nothing and the room topic has no subscriber.  NestJS runs  *)
(* a handler from its last await to `room.messageCount++` in one piece;    *)
(* Spring Boot runs the handlers on the threads of the inbound channel,    *)
(* where `this.messageCount++` on the plain int field is a load and a      *)
(* store.                                                                  *)
(***************************************************************************)
MaxAccepted == 3

SendSender == "alice"

\* ChatService.isValidMessage (Spring Boot); @NotBlank and @Size of the DTO
\* ask the same of the content
isValidMessageSpring(content, sender, roomId) ==
    /\ Trim(Chars(roomId)) # <<>>
    /\ Trim(Chars(sender)) # <<>>
    /\ Trim(content) # <<>>
    /\ StrLen(content) <= 1000

Returned == {"start", "sent", "failed"}

Loading == {t \in DOMAIN pc : pc[t] = "loaded"}

RECURSIVE SumCounts(_, _)
SumCounts(f, S) ==
    IF S = {} THEN 0
    ELSE LET r == CHOOSE x \in S : TRUE IN f[r] + SumCounts(f, S \ {r})

SendBudget == SumCounts(accepted, DOMAIN accepted) + Cardinality(Loading) < MaxAccepted

\* ChatGateway.handleSendMessage from its last await on: processMessage
\* sanitizes, validates and increments without giving up the thread.
NestSendMessage(t, roomId, content) ==
    /\ backend = "nest" /\ pc[t] \in Returned
    /\ IF isValidMessage(sanitizeContent(content), SendSender, roomId)
       THEN /\ SendBudget
            /\ messageCounts' = [r \in DOMAIN messageCounts |->
                                    IF r = roomId THEN messageCounts[r] + 1
                                    ELSE messageCounts[r]]
            /\ accepted' = [accepted EXCEPT ![roomId] = @ + 1]
            /\ out' = <<Event("message", "CHAT", roomId, InSocketRoom(socketRooms, roomId))>>
            /\ pc' = [pc EXCEPT ![t] = "sent"]
       ELSE /\ out' = <<Event("error", "", Null, {t})>>
            /\ pc' = [pc EXCEPT ![t] = "failed"]
            /\ UNCHANGED <<messageCounts, accepted>>
    /\ UNCHANGED <<now, backend, registry, heap, held, loaded, dualVars, hookVars, limiterVars>>
    /\ UNCHANGED <<conn, clientData, socketRooms, userSessions, rooms, repeat, removed>>

\* ChatController.sendMessage up to the load of `this.messageCount++`.  A
\* message that fails validation is turned away by @Valid, before the method
\* body, or by processMessage, which ends in sendErrorToUser; no handler
\* answers the first, and sendErrorToUser writes a log line and sends nothing.
SpringSendMessage(t, roomId, content) ==
    /\ backend = "spring" /\ pc[t] \in Returned
    /\ IF isValidMessageSpring(content, SendSender, roomId)
       THEN /\ SendBudget
            /\ IF roomId \in DOMAIN messageCounts
               THEN /\ loaded' = [loaded EXCEPT ![t] = messageCounts[roomId]]
                    /\ held' = [held EXCEPT ![t] = [roomId |-> roomId, room |-> 0]]
                    /\ pc' = [pc EXCEPT ![t] = "loaded"]
                    /\ UNCHANGED <<accepted, out>>
               ELSE /\ accepted' = [accepted EXCEPT ![roomId] = @ + 1]
                    /\ out' = <<Event("message", "CHAT", roomId, {})>>
                    /\ pc' = [pc EXCEPT ![t] = "sent"]
                    /\ UNCHANGED <<loaded, held>>
       ELSE /\ out' = <<>>
            /\ pc' = [pc EXCEPT ![t] = "failed"]
            /\ UNCHANGED <<accepted, loaded, held>>
    /\ UNCHANGED <<now, backend, registry, heap, messageCounts, dualVars, hookVars, limiterVars>>
    /\ UNCHANGED <<conn, clientData, socketRooms, userSessions, rooms, repeat, removed>>

\* the store of `this.messageCount++`, then ChatService.processMessage to its
\* end: the activity touch and the broadcast to the room topic.
SpringStoreCount(t) ==
    /\ backend = "spring" /\ pc[t] = "loaded"
    /\ messageCounts' = [messageCounts EXCEPT ![held[t].roomId] = loaded[t] + 1]
    /\ accepted' = [accepted EXCEPT ![held[t].roomId] = @ + 1]
    /\ out' = <<Event("message", "CHAT", held[t].roomId, {})>>
    /\ pc' = [pc EXCEPT ![t] = "sent"]
    /\ UNCHANGED <<now, backend, registry, heap, held, loaded, dualVars, hookVars, limiterVars>>
    /\ UNCHANGED <<conn, clientData, socketRooms, userSessions, rooms, repeat, removed>>

(***************************************************************************)
(* The Spring Boot room registry next to the NestJS one.  Both are given   *)
(* the same requests, one at a time.  A Spring Boot room keeps its users   *)
(* in a set whose elements are equal when their sessionId is; STOMP topics *)
(* are subscribed to by the clients, so a broadcast is known by its topic. *)
(***************************************************************************)
DualRoomIds == {"general-dev"}
DualUsernamesOf(c) == IF c = "s1" THEN {"alice", "bobby"} ELSE {"bob"}

\* String.startsWith on the room ids of the model
StartsWith(s, prefix) ==
    CASE prefix = "general" -> s \in {"general", "general-dev"}
      [] prefix = "lobby" -> s \in {"lobby", "lobby2"}
      [] OTHER -> FALSE

springIsDefaultRoom(roomId) == StartsWith(roomId, "general") \/ StartsWith(roomId, "lobby")

\* UUID.randomUUID().toString(): a string no room of the map has for its id
\* and no client names
Uuids == <<"uuid-1", "uuid-2", "uuid-3">>

randomUUID(srs) ==
    LET used == {srs[r].id : r \in DOMAIN srs}
    IN  Uuids[CHOOSE n \in 1..Len(Uuids) : Uuids[n] \notin used
                                            /\ \A k \in 1..(n - 1) : Uuids[k] \in used]

NewChatRoom(id) == [id |-> id, activeUsers |-> {}, messageCount |-> 0]

\* rooms.computeIfAbsent(roomId, ...)
springGetOrCreate(srs, roomId) ==
    IF roomId \in DOMAIN srs THEN srs
    ELSE [r \in (DOMAIN srs) \cup {roomId} |->
             IF r = roomId THEN NewChatRoom(randomUUID(srs)) ELSE srs[r]]

\* RoomService.addUserToRoom: Set.add keeps the element it already has
springAddUserToRoom(srs, roomId, username, sessionId, t) ==
    LET srs1 == springGetOrCreate(srs, roomId)
        added == ~\E u \in srs1[roomId].activeUsers : u.sessionId = sessionId
    IN  [rooms |-> IF added
                   THEN [srs1 EXCEPT ![roomId].activeUsers =
                                         @ \cup {RoomUser(sessionId, username, t)}]
                   ELSE srs1,
         added |-> added]

springRemoveUserFromRoom(srs, roomId, sessionId) ==
    IF roomId \notin DOMAIN srs THEN [rooms |-> srs, removed |-> FALSE]
    ELSE LET left == {u \in srs[roomId].activeUsers : u.sessionId # sessionId}
         IN  [rooms |-> IF left = {} /\ ~springIsDefaultRoom(roomId)
                        THEN [r \in (DOMAIN srs) \ {roomId} |-> srs[r]]
                        ELSE [srs EXCEPT ![roomId].activeUsers = left],
              removed |-> left # srs[roomId].activeUsers]

springIncrementMessageCount(srs, roomId) ==
    IF roomId \in DOMAIN srs THEN [srs EXCEPT ![roomId].messageCount = @ + 1] ELSE srs

\* RoomService.cleanupInactiveSessions: the stale users go; an empty room is
\* then removed under room.getId(), the id of the ChatRoom object.
springCleanupInactiveSessions(srs, inactiveMinutes, t) ==
    LET Kept(r) == {u \in srs[r].activeUsers :
                       ~(u.lastActivity < t - inactiveMinutes * 60 * 1000)}
        gone == {srs[r].id : r \in {q \in DOMAIN srs :
                                        Kept(q) = {} /\ ~springIsDefaultRoom(srs[q].id)}}
    IN  [r \in (DOMAIN srs) \ gone |->
            [srs[r] EXCEPT !.activeUsers = Kept(r)]]

\* a broadcast to /topic/public/{roomId} or /topic/status/{roomId}
Cast(ev, type, roomId) == [ev |-> ev, type |-> type, room |-> roomId]

\* chat.addUser / chat.addUser
DualJoin(c, roomId, username) ==
    /\ JoinEffects(c, roomId, username)
    /\ LET result == springAddUserToRoom(springRooms, roomId, username, c, now)
       IN  /\ springRooms' = result.rooms
           /\ springOut' = IF result.added
                            THEN <<Cast("message", "JOIN", roomId),
                                   Cast("userStatus", "joined", roomId)>>
                            ELSE <<>>
    /\ UNCHANGED <<limiterVars, backend, registry, heap, pc, held, sendVars, hookVars>>

\* chat.removeUser / chat.removeUser
DualLeave(c, roomId, username) ==
    /\ LeaveRequestEffects(c, roomId, username)
    /\ LET result == springRemoveUserFromRoom(springRooms, roomId, c)
       IN  /\ springRooms' = result.rooms
           /\ springOut' = IF result.removed
                            THEN <<Cast("message", "LEAVE", roomId),
                                   Cast("userStatus", "left", roomId)>>
                            ELSE <<>>
    /\ UNCHANGED <<limiterVars, backend, registry, heap, pc, held, sendVars, hookVars>>

\* chat.sendMessage / chat.sendMessage
DualSend(c, roomId, sender, content) ==
    /\ SendEffects(c, roomId, sender, content)
    /\ TotalMessages(springRooms) < MaxMessages
    /\ IF isValidMessageSpring(content, sender, roomId)
       THEN /\ springRooms' = springIncrementMessageCount(springRooms, roomId)
            /\ springOut' = <<Cast("message", "CHAT", roomId)>>
       ELSE /\ springRooms' = springRooms
            /\ springOut' = <<>>
    /\ UNCHANGED <<limiterVars, backend, registry, heap, pc, held, sendVars, hookVars>>

\* POST rooms/cleanup on both backends
DualSweep(m) ==
    /\ SweepRoomsEffects(m)
    /\ springRooms' = springCleanupInactiveSessions(springRooms, m, now)
    /\ springOut' = <<>>
    /\ UNCHANGED <<limiterVars, backend, registry, heap, pc, held, sendVars, hookVars>>

(***************************************************************************)
(* Specifications.                                                         *)
(***************************************************************************)

Init ==
    /\ now = 0
    /\ ChatInit
    /\ LimiterInit
    /\ ConcIdle

Next ==
    \/ \E c \in SessionIds : handleConnection(c)
    \/ \E c \in SessionIds : \E r \in JoinRoomIds, u \in UsernamesOf(c) : handleUserJoin(c, r, u)
    \/ \E c \in SessionIds : \E r \in JoinRoomIds, u \in UsernamesOf(c) : handleUserLeave(c, r, u)
    \/ \E c \in SessionIds : handleDisconnect(c)
    \/ \E c \in SessionIds : \E r \in JoinRoomIds, u \in UsernamesOf(c), m \in Contents :
           handleSendMessage(c, r, u, m)
    \/ \E m \in CleanupMinutes : SweepSessions(m)
    \/ \E m \in CleanupMinutes : SweepRooms(m)
    \/ Tick

Spec == Init /\ [][Next]_vars

\* the gateway's socket handlers alone, at one instant of the clock
NextGateway ==
    \/ \E c \in SessionIds : handleConnection(c)
    \/ \E c \in SessionIds : \E r \in JoinRoomIds, u \in UsernamesOf(c) : handleUserJoin(c, r, u)
    \/ \E c \in SessionIds : \E r \in JoinRoomIds, u \in UsernamesOf(c) : handleUserLeave(c, r, u)
    \/ \E c \in SessionIds : handleDisconnect(c)
    \/ \E c \in SessionIds : \E r \in JoinRoomIds, u \in UsernamesOf(c), m \in Contents :
           handleSendMessage(c, r, u, m)

SpecGateway == Init /\ [][NextGateway]_vars

\* what changes the membership of the rooms: the gateway's handlers other
\* than the send, the two sweeps and the clock
NextRegistry ==
    \/ \E c \in SessionIds : handleConnection(c)
    \/ \E c \in SessionIds : \E r \in JoinRoomIds, u \in UsernamesOf(c) : handleUserJoin(c, r, u)
    \/ \E c \in SessionIds : \E r \in JoinRoomIds, u \in UsernamesOf(c) : handleUserLeave(c, r, u)
    \/ \E c \in SessionIds : handleDisconnect(c)
    \/ \E m \in CleanupMinutes : SweepSessions(m)
    \/ \E m \in CleanupMinutes : SweepRooms(m)
    \/ Tick

SpecRegistry == Init /\ [][NextRegistry]_vars

(***************************************************************************)
(* Properties of the room and session registries.                          *)
(***************************************************************************)
\* the rooms whose activeUsers hold an entry of session c
RoomsOf(c) == {r \in DOMAIN rooms : FindIndex(rooms[r].activeUsers, c) # 0}

\* the handler that ran last performed a leave of room r that removed an entry
LeftRoom(r) ==
    /\ removed
    /\ Len(out) = 3 /\ out[1].type = "LEAVE" /\ out[1].room = r

\* C1, as claimed: a session is in at most one room's activeUsers; joining
\* another room takes it out of the room it was in.
C1_OneRoomPerSession ==
    \A c \in SessionIds : Cardinality(RoomsOf(c)) <= 1

\* C2: no room's activeUsers holds two entries with the same sessionId.
C2_Uniqueness ==
    \A r \in DOMAIN rooms :
        \A i, j \in 1..Len(rooms[r].activeUsers) :
            rooms[r].activeUsers[i].sessionId = rooms[r].activeUsers[j].sessionId => i = j

\* C2: a session joined a room again after another session had joined it.
C2_Witness ==
    \E r \in DOMAIN rooms :
        /\ Len(rooms[r].activeUsers) = 2
        /\ rooms[r].activeUsers[1].lastActivity > rooms[r].activeUsers[2].lastActivity

\* C4: once a leave has removed a user, a room that is not a default room is
\* either gone (getRoom returns null) or still has users, and a default room
\* is still there, emptied or not.
C4_EmptyRoomReclaimed ==
    \A r \in JoinRoomIds :
        LeftRoom(r) =>
            IF isDefaultRoom(r)
            THEN getRoom(rooms, r) # <<>>
            ELSE getRoom(rooms, r) = <<>> \/ Len(rooms[r].activeUsers) > 0

\* C4: the last user has left "dev", which is gone, and "general" is there
\* with no users.
C4_Witness ==
    /\ LeftRoom("dev")
    /\ getRoom(rooms, "dev") = <<>>
    /\ getRoom(rooms, "general") # <<>> /\ Len(rooms["general"].activeUsers) = 0

\* C5, as claimed: the second of two identical leave requests in a row sends
\* no LEAVE message and no 'left' presence event to anyone.
C5_LeaveIdempotent ==
    repeat => \A i \in 1..Len(out) : out[i].type \in {"LEAVE", "left"} => out[i].to = {}

\* C6, as claimed: once a socket's disconnect has been handled, its session is
\* in no room's activeUsers and not in the session registry.
C6_DisconnectCleans ==
    \A c \in SessionIds :
        conn[c] = "closed" => c \notin DOMAIN userSessions /\ RoomsOf(c) = {}

\* C7, as claimed: the stale sweep takes every session whose lastActivity is
\* older than now - T out of the session registry and out of every room.
C7_StaleSweep ==
    [][\A m \in CleanupMinutes :
          SweepSessions(m) =>
              \A c \in DOMAIN userSessions :
                  userSessions[c].lastActivity < now - m * 60 * 1000 =>
                      /\ c \notin DOMAIN userSessions'
                      /\ \A r \in DOMAIN rooms' : FindIndex(rooms'[r].activeUsers, c) = 0]_vars

InitThrottle ==
    /\ now = 0
    /\ ChatInit
    /\ LimiterInit
    /\ ConcIdle

NextThrottle ==
    \/ \E c \in ThrottleClients, e \in ThrottleEvents : canActivate(c, e)
    \/ ThrottleTick

SpecThrottle == InitThrottle /\ [][NextThrottle]_vars

\* The limiter with its admin functions, under room operations.
AdminEvents == {"handleUserJoin", "handleUserLeave"}

NextAdmin ==
    \/ \E c \in ThrottleClients, e \in AdminEvents : canActivate(c, e)
    \/ \E c \in ThrottleClients : resetClientPenalties(c)
    \/ clearAllData
    \/ ThrottleTick

SpecAdmin == InitThrottle /\ [][NextAdmin]_vars

\* The limiter with its timer, for sockets that connect, ask for room
\* operations and disconnect.  A client that reconnects has a new socket,
\* and so a new client.id.
InitCleanup ==
    /\ now = 0
    /\ ChatInit
    /\ rateLimitStore = <<>>
    /\ decision = NoDecision
    /\ sent = [c \in SessionIds |-> 0]
    /\ admittedSince = [c \in SessionIds |-> 0]
    /\ admitted = [c \in SessionIds |-> <<>>]
    /\ peak = [c \in SessionIds |-> 0]
    /\ rejectedAt = [c \in SessionIds |-> -1]
    /\ adminCalls = 0
    /\ ConcIdle

NextCleanup ==
    \/ \E c \in SessionIds : handleConnection(c)
    \/ \E c \in SessionIds : handleDisconnect(c)
    \/ \E c \in SessionIds, e \in AdminEvents : conn[c] = "connected" /\ canActivate(c, e)
    \/ cleanup
    \/ LongTick

SpecCleanup == InitCleanup /\ [][NextCleanup]_vars

InitConc ==
    /\ now = 0
    /\ ChatInit
    /\ LimiterInit
    /\ backend \in Backends
    /\ registry = <<>>
    /\ heap = <<>>
    /\ pc = [t \in ConcCallers |-> "start"]
    /\ held = [t \in ConcCallers |-> [roomId |-> Null, room |-> 0]]
    /\ messageCounts = <<>>
    /\ accepted = <<>>
    /\ loaded = <<>>
    /\ springRooms = <<>>
    /\ springOut = <<>>
    /\ HookIdle

NextConc ==
    \/ \E t \in ConcCallers, r \in ConcRoomIds : NestAddUserToRoom(t, r)
    \/ \E t \in ConcCallers : NestResume(t)
    \/ \E t \in ConcCallers, r \in ConcRoomIds : SpringGetOrCreate(t, r)
    \/ \E t \in ConcCallers : SpringAddUser(t)

\* The gateway with what runs by itself: the clock.  No timer of the code
\* calls cleanupStaleSessions or cleanupInactiveUsers, so the sweeps, like
\* the handlers, happen only when a request asks for them.
SpecTimers == Init /\ [][Next]_vars /\ WF_vars(Tick)

SpecConc == InitConc /\ [][NextConc]_vars

\* Two browser tabs, each with its own useWebSocket.
NextHook ==
    \/ \E t \in Tabs : HookConnect(t)
    \/ \E t \in Tabs : onConnect(t)
    \/ \E t \in Tabs, code \in CloseCodes : onWebSocketClose(t, code)
    \/ \E t \in Tabs : ReconnectTimer(t)
    \/ \E t \in Tabs : HookDisconnect(t)

SpecHook == Init /\ [][NextHook]_vars

\* Callers sending to the default room, which exists from startup, and to a
\* room id nobody has joined.
InitSend ==
    /\ now = 0
    /\ ChatInit
    /\ LimiterInit
    /\ backend \in Backends
    /\ registry = <<>>
    /\ heap = <<>>
    /\ pc = [t \in ConcCallers |-> "start"]
    /\ held = [t \in ConcCallers |-> [roomId |-> Null, room |-> 0]]
    /\ messageCounts = [r \in {"general"} |-> 0]
    /\ accepted = [r \in JoinRoomIds |-> 0]
    /\ loaded = [t \in ConcCallers |-> 0]
    /\ springRooms = <<>>
    /\ springOut = <<>>
    /\ HookIdle

NextSend ==
    \/ \E t \in ConcCallers, r \in JoinRoomIds, m \in Contents : NestSendMessage(t, r, m)
    \/ \E t \in ConcCallers, r \in JoinRoomIds, m \in Contents : SpringSendMessage(t, r, m)
    \/ \E t \in ConcCallers : SpringStoreCount(t)

SpecSend == InitSend /\ [][NextSend]_vars

\* Both backends after startup, with the model's sockets connected.
InitDual ==
    /\ now = 0
    /\ conn = [c \in SessionIds |-> "connected"]
    /\ clientData = [c \in SessionIds |-> [username |-> Null, roomId |-> Null]]
    /\ socketRooms = [c \in SessionIds |-> {}]
    /\ userSessions = <<>>
    /\ rooms = createDefaultRoom
    /\ out = <<>>
    /\ repeat = FALSE
    /\ removed = FALSE
    /\ LimiterInit
    /\ ConcIdle

NextDual ==
    \/ \E c \in SessionIds : \E r \in DualRoomIds, u \in DualUsernamesOf(c) : DualJoin(c, r, u)
    \/ \E c \in SessionIds : \E r \in DualRoomIds, u \in DualUsernamesOf(c) : DualLeave(c, r, u)
    \/ \E c \in SessionIds : \E r \in DualRoomIds, u \in DualUsernamesOf(c), m \in Contents :
           DualSend(c, r, u, m)
    \/ \E m \in CleanupMinutes : DualSweep(m)
    \/ Tick

SpecDual == InitDual /\ [][NextDual]_vars

(***************************************************************************)
(* Properties of concurrent first joins.                                   *)
(***************************************************************************)
\* the room objects ever created for room id k
Made(k) == {i \in 1..Len(heap) : heap[i].key = k}

\* C3: concurrent first joins to an unknown room id create exactly one room
\* object for the id; the registry keeps pointing at it, and every caller
\* that is through joined that object.
C3_OneRecordPerId ==
    \A k \in ConcRoomIds :
        /\ Cardinality(Made(k)) <= 1
        /\ Made(k) # {} => k \in DOMAIN registry /\ registry[k] \in Made(k)
        /\ \A t \in ConcCallers :
               pc[t] = "done" /\ held[t].roomId = k =>
                   \E i \in 1..Len(heap[registry[k]].activeUsers) :
                       heap[registry[k]].activeUsers[i] = t

\* C3: all callers joined the same unknown id, one of them finishing while
\* another was still between its lookup and its insertion.
C3_Witness ==
    \E k \in ConcRoomIds : \E a, b \in ConcCallers :
        /\ \A t \in ConcCallers : held[t].roomId = k
        /\ pc[a] = "done" /\ pc[b] \in InFlight
        /\ Cardinality(Made(k)) = 1

(***************************************************************************)
(* Properties of the rate limiter.                                         *)
(***************************************************************************)
RECURSIVE SumOver(_, _)
SumOver(log, S) ==
    IF S = {} THEN 0
    ELSE LET u == CHOOSE x \in S : TRUE IN log[u] + SumOver(log, S \ {u})

\* messages of client c admitted in the base window that starts at time t
AdmittedFrom(c, t) ==
    SumOver(admitted[c], {u \in DOMAIN admitted[c] : u >= t /\ u < t + limits.messages.window})

\* C8: of the sends of one session since its counters were zeroed, the first
\* `limit` are admitted and the (limit+1)-th is rejected with a retry-after
\* (reset time minus now) strictly greater than the base window.
C8_LimitThenReject ==
    \A c \in ThrottleClients :
        decision.client = c /\ decision.event = "handleSendMessage" =>
            /\ sent[c] <= limits.messages.count => decision.allowed
            /\ sent[c] = limits.messages.count + 1 =>
                   /\ ~decision.allowed
                   /\ decision.resetTime - decision.timestamp > limits.messages.window

\* C8: the (limit+1)-th send of a window has been rejected.
C8_Witness ==
    \E c \in ThrottleClients :
        /\ decision.client = c /\ decision.event = "handleSendMessage"
        /\ sent[c] = limits.messages.count + 1
        /\ ~decision.allowed
        /\ decision.resetTime - decision.timestamp = 2 * limits.messages.window

C10_PenaltyDecay ==
    [][\A c \in ThrottleClients :
          (/\ c \in DOMAIN rateLimitStore
           /\ rejectedAt[c] = rateLimitStore[c].lastActivity
           /\ now > rateLimitStore[c].resetTime + limits.penalty.resetTime
           /\ canActivate(c, "handleSendMessage"))
          => (decision'.allowed /\ rateLimitStore'[c].penalties < peak[c])]_vars

(***************************************************************************)
(* Properties of the rate limiter's entries.                               *)
(***************************************************************************)
\* C11: the penalty level of every entry is at least 0 and at most
\* maxPenalties.
C11_PenaltyBounds ==
    \A c \in DOMAIN rateLimitStore :
        /\ rateLimitStore[c].penalties >= 0
        /\ rateLimitStore[c].penalties <= limits.penalty.maxPenalties

\* C11: a call has been rejected with the entry at the maximum level.
C11_Witness ==
    \E c \in DOMAIN rateLimitStore :
        /\ rateLimitStore[c].penalties = limits.penalty.maxPenalties
        /\ decision.client = c /\ ~decision.allowed

\* C12: a step that creates an entry or changes its resetTime leaves it at
\* now + getWindowTime(penalties), with the penalties the entry has after the
\* step.
C12_ResetTimeTracksPenalty ==
    [][\A c \in DOMAIN rateLimitStore' :
          (c \notin DOMAIN rateLimitStore
              \/ rateLimitStore'[c].resetTime # rateLimitStore[c].resetTime)
          => rateLimitStore'[c].resetTime = now + getWindowTime(rateLimitStore'[c].penalties)]_vars

\* C12: a rejection has just set the reset time of an entry whose penalty
\* level is above 1.
C12_Witness ==
    \E c \in DOMAIN rateLimitStore :
        /\ decision.client = c /\ ~decision.allowed /\ decision.timestamp = now
        /\ rateLimitStore[c].penalties > 1
        /\ rateLimitStore[c].resetTime = now + getWindowTime(rateLimitStore[c].penalties)
        /\ rateLimitStore[c].resetTime > now + 2 * limits.messages.window

\* min(baseWindow * multiplier^level, windowCeiling) with the configured
\* values: 60 s, 2 and 10 min
AdjustedWindow(level) ==
    IF 60000 * 2^level <= 600000 THEN 60000 * 2^level ELSE 600000

\* C13: getWindowTime(level) is min(baseWindow * multiplier^level, ceiling) for
\* every level up to maxPenalties, does not decrease with the level and stays
\* within the ceiling; and no step sets a reset time more than the ceiling
\* ahead of the clock.
C13_WindowCeiling ==
    [][/\ \A level \in 0..limits.penalty.maxPenalties :
              /\ getWindowTime(level) = AdjustedWindow(level)
              /\ getWindowTime(level) <= 600000
              /\ level > 0 => getWindowTime(level - 1) <= getWindowTime(level)
       /\ \A c \in DOMAIN rateLimitStore' :
              (c \notin DOMAIN rateLimitStore
                  \/ rateLimitStore'[c].resetTime # rateLimitStore[c].resetTime)
              => rateLimitStore'[c].resetTime - now <= 600000]_vars

\* C13: a rejection has set the reset time exactly the ceiling ahead, at a
\* level whose uncapped window would be longer.
C13_Witness ==
    \E c \in DOMAIN rateLimitStore :
        /\ decision.client = c /\ ~decision.allowed /\ decision.timestamp = now
        /\ 60000 * 2^(rateLimitStore[c].penalties) > 600000
        /\ rateLimitStore[c].resetTime = now + 600000

(***************************************************************************)
(* Two clients with the same MESSAGE history; only the first one also      *)
(* issues room operations.                                                 *)
(***************************************************************************)
Twin == [withRoomOps |-> "s1", messagesOnly |-> "s2"]

\* what canActivate returns and emits, as kept in `decision`
Decided(c, eventName, act, t) ==
    [client |-> c, event |-> eventName, allowed |-> act.allowed,
     resetTime |-> act.entry.resetTime, penalties |-> act.entry.penalties, timestamp |-> t]

\* both clients call canActivate for handleSendMessage, one after the other
TwinSend ==
    LET first == Activation(rateLimitStore, Twin.withRoomOps, "handleSendMessage", now)
        store1 == SetEntry(rateLimitStore, Twin.withRoomOps, first.entry)
        second == Activation(store1, Twin.messagesOnly, "handleSendMessage", now)
    IN  /\ rateLimitStore' = SetEntry(store1, Twin.messagesOnly, second.entry)
        /\ decision' = Decided(Twin.messagesOnly, "handleSendMessage", second, now)
        /\ UNCHANGED <<now, sent, admittedSince, admitted, peak, rejectedAt, adminCalls>>
        /\ UNCHANGED <<chatVars, concVars>>

\* the first client calls canActivate for a room operation
TwinRoomOp(eventName) ==
    LET act == Activation(rateLimitStore, Twin.withRoomOps, eventName, now)
    IN  /\ rateLimitStore' = SetEntry(rateLimitStore, Twin.withRoomOps, act.entry)
        /\ decision' = Decided(Twin.withRoomOps, eventName, act, now)
        /\ UNCHANGED <<now, sent, admittedSince, admitted, peak, rejectedAt, adminCalls>>
        /\ UNCHANGED <<chatVars, concVars>>

NextTwin ==
    \/ TwinSend
    \/ \E e \in AdminEvents : TwinRoomOp(e)
    \/ ThrottleTick

SpecTwin == InitThrottle /\ [][NextTwin]_vars

\* C14, as claimed: with the same MESSAGE history and the same clock, a
\* MESSAGE operation gets the same decision whether or not the session also
\* issued room operations.
C14_ClassesIndependent ==
    [][TwinSend =>
          Activation(rateLimitStore, Twin.withRoomOps, "handleSendMessage", now).allowed
          = Activation(rateLimitStore, Twin.messagesOnly, "handleSendMessage", now).allowed]_vars

(***************************************************************************)
(* Properties of the gateway's send and join pipeline.                     *)
(***************************************************************************)
\* socket c's handler for a send or a join takes this step
SendOrJoin(c) ==
    \E r \in JoinRoomIds, u \in UsernamesOf(c) :
        \/ handleUserJoin(c, r, u)
        \/ \E m \in Contents : handleSendMessage(c, r, u, m)

\* the events `o` hold a broadcast to a room
RoomBroadcast(o) == \E i \in 1..Len(o) : o[i].ev \in {"message", "userStatus"}

\* C15, as claimed: a send or a join changes a registry or broadcasts to a
\* room only if the rate limiter was consulted for it in that step and
\* admitted it.
C15_LimiterConsulted ==
    [][\A c \in SessionIds :
          (/\ SendOrJoin(c)
           /\ (rooms' # rooms \/ userSessions' # userSessions \/ RoomBroadcast(out')))
          => (/\ c \in DOMAIN rateLimitStore'
              /\ rateLimitStore'[c].lastActivity = now
              /\ decision'.client = c /\ decision'.allowed)]_vars

\* C16, as claimed: a send whose fields fail validation leaves every room's
\* messageCount and the session registry (the sender's lastActivity) as they
\* were and broadcasts nothing to a room.
C16_RejectedBeforeMutation ==
    [][\A c \in SessionIds : \A r \in JoinRoomIds, u \in UsernamesOf(c), m \in Contents :
          (handleSendMessage(c, r, u, m) /\ ~isValidMessage(m, u, r))
          => (rooms' = rooms /\ userSessions' = userSessions /\ ~RoomBroadcast(out'))]_vars


(***************************************************************************)
(* Error events.                                                           *)
(***************************************************************************)
\* C17: a send that fails produces an error event that reaches the caller
\* that sent it and nobody else, and no error event is addressed to a room.
C17_ErrorToOriginator ==
    [][\A t \in ConcCallers :
          pc'[t] = "failed" /\ pc[t] # "failed" =>
              /\ \E i \in 1..Len(out') : out'[i].ev = "error" /\ out'[i].to = {t}
              /\ \A i \in 1..Len(out') :
                     out'[i].ev = "error" => out'[i].to = {t} /\ out'[i].room = Null]_vars


(***************************************************************************)
(* Room broadcasts.                                                        *)
(***************************************************************************)
\* the sessions in the active-user set of room r
ActiveIn(rs, r) ==
    IF r \in DOMAIN rs
    THEN {rs[r].activeUsers[i].sessionId : i \in 1..Len(rs[r].activeUsers)}
    ELSE {}

\* C18: the CHAT, JOIN and LEAVE messages and the presence events a handler
\* emits reach exactly the sessions that are in the room's active-user set
\* once the handler has updated it.
C18_BroadcastToActiveUsers ==
    \A i \in 1..Len(out) :
        out[i].ev \in {"message", "userStatus"} => out[i].to = ActiveIn(rooms, out[i].room)


(***************************************************************************)
(* The message counter under concurrent sends.                             *)
(***************************************************************************)
\* C19: a room's messageCount never goes down, and once every send in
\* progress has finished it equals the number of CHAT messages accepted for
\* the room: no increment is lost and none is applied twice.
C19_CountsEveryMessage ==
    [][/\ \A r \in DOMAIN messageCounts : messageCounts'[r] >= messageCounts[r]
       /\ Loading' = {} =>
              \A r \in DOMAIN messageCounts : messageCounts'[r] = accepted'[r]]_vars


(***************************************************************************)
(* Session records and room membership.                                    *)
(***************************************************************************)
\* C20: between two handlers, a session record that names a room belongs to
\* a session in that room's active-user set, and the room exists.
C20_SessionRoomInRoom ==
    \A s \in DOMAIN userSessions :
        userSessions[s].roomId # Null =>
            /\ userSessions[s].roomId \in DOMAIN rooms
            /\ s \in ActiveIn(rooms, userSessions[s].roomId)


(***************************************************************************)
(* The room association after a leave.                                     *)
(***************************************************************************)
\* C21: when a leave request returns, the session names no room any more,
\* neither in its socket data nor in its session record, whether or not the
\* room or the user was found.
C21_LeaveClearsRoomId ==
    [][\A c \in SessionIds : \A r \in JoinRoomIds, u \in UsernamesOf(c) :
          handleUserLeave(c, r, u) =>
              /\ clientData'[c].roomId = Null
              /\ c \in DOMAIN userSessions' => userSessions'[c].roomId = Null]_vars


(***************************************************************************)
(* Joining a room again.                                                   *)
(***************************************************************************)
\* the entries of session c in room r, NestJS and Spring Boot
NestEntries(rs, r, c) ==
    IF r \in DOMAIN rs THEN {u \in Range(rs[r].activeUsers) : u.sessionId = c} ELSE {}

SpringEntries(srs, r, c) ==
    IF r \in DOMAIN srs THEN {u \in srs[r].activeUsers : u.sessionId = c} ELSE {}

\* C22: a join of a session that is in the room already keeps the number of
\* entries of the room and leaves the session's one entry with the username
\* and the time of this join, on either backend.
C22_RejoinUpdatesInPlace ==
    [][\A c \in SessionIds : \A r \in DualRoomIds, u \in DualUsernamesOf(c) :
          DualJoin(c, r, u) /\ NestEntries(rooms, r, c) # {} /\ SpringEntries(springRooms, r, c) # {} =>
              /\ Len(rooms'[r].activeUsers) = Len(rooms[r].activeUsers)
              /\ NestEntries(rooms', r, c) = {RoomUser(c, u, now)}
              /\ Cardinality(springRooms'[r].activeUsers) = Cardinality(springRooms[r].activeUsers)
              /\ SpringEntries(springRooms', r, c) = {RoomUser(c, u, now)}]_vars


(***************************************************************************)
(* Rooms named with a reserved prefix.                                     *)
(***************************************************************************)
\* C23: a room whose id starts with a reserved prefix, once in a registry,
\* stays in it: neither the leave of its last user nor a sweep that finds it
\* empty deletes it.
C23_PrefixRoomKept ==
    [][\A r \in DualRoomIds :
          StartsWith(r, "general") \/ StartsWith(r, "lobby") =>
              /\ r \in DOMAIN rooms => r \in DOMAIN rooms'
              /\ r \in DOMAIN springRooms => r \in DOMAIN springRooms']_vars


(***************************************************************************)
(* Creating a session record that exists.                                  *)
(***************************************************************************)
\* C24: a join of a session that has a record already leaves one record per
\* session and changes nothing of that record but the username and the
\* time of last activity (and the room the join is for); joinedAt stays.
C24_CreateKeepsRecord ==
    [][\A c \in SessionIds : \A r \in JoinRoomIds, u \in UsernamesOf(c) :
          handleUserJoin(c, r, u) /\ c \in DOMAIN userSessions =>
              /\ DOMAIN userSessions' = DOMAIN userSessions
              /\ userSessions'[c] = [userSessions[c] EXCEPT !.username = u,
                                                            !.lastActivity = now,
                                                            !.roomId = r]]_vars


(***************************************************************************)
(* The walk through of two sessions in 'general'.                          *)
(***************************************************************************)
Hi == <<[ch |-> "h", n |-> 1], [ch |-> "i", n |-> 1]>>

BothConnected == \A c \in SessionIds : conn[c] = "connected"

\* both sessions are in 'general', and in no other room
BothInGeneral ==
    /\ BothConnected
    /\ DOMAIN rooms = {"general"}
    /\ ActiveIn(rooms, "general") = {"s1", "s2"}
    /\ Len(rooms["general"].activeUsers) = 2
    /\ socketRooms = [c \in SessionIds |-> {"general"}]
    /\ clientData = [c \in SessionIds |->
                        [username |-> IF c = "s1" THEN "alice" ELSE "bob", roomId |-> "general"]]
    /\ DOMAIN userSessions = {"s1", "s2"}

\* C25: from a fresh start, s1 joining 'general' as alice makes one user and
\* a JOIN message with a joined presence; s2 joining as bob makes two users
\* and a JOIN that reaches both; s1 sending "hi" makes messageCount 1 and a
\* CHAT message that reaches both; s2 disconnecting leaves one user, a LEAVE
\* that reaches s1 only, and no session record of s2.
C25_WalkThrough ==
    [][/\ ( /\ BothConnected /\ DOMAIN rooms = {"general"}
            /\ ActiveIn(rooms, "general") = {}
            /\ socketRooms = [c \in SessionIds |-> {}]
            /\ userSessions = <<>>
            /\ handleUserJoin("s1", "general", "alice") ) =>
              /\ ActiveIn(rooms', "general") = {"s1"}
              /\ Len(rooms'["general"].activeUsers) = 1
              /\ out'[1] = Event("message", "JOIN", "general", {"s1"})
              /\ out'[2] = Event("userStatus", "joined", "general", {"s1"})
       /\ ( /\ BothConnected /\ DOMAIN rooms = {"general"}
            /\ ActiveIn(rooms, "general") = {"s1"}
            /\ Len(rooms["general"].activeUsers) = 1
            /\ socketRooms = [c \in SessionIds |-> IF c = "s1" THEN {"general"} ELSE {}]
            /\ handleUserJoin("s2", "general", "bob") ) =>
              /\ ActiveIn(rooms', "general") = {"s1", "s2"}
              /\ Len(rooms'["general"].activeUsers) = 2
              /\ out'[1] = Event("message", "JOIN", "general", {"s1", "s2"})
              /\ out'[2] = Event("userStatus", "joined", "general", {"s1", "s2"})
       /\ ( /\ BothInGeneral
            /\ rooms["general"].messageCount = 0
            /\ handleSendMessage("s1", "general", "alice", Hi) ) =>
              /\ rooms'["general"].messageCount = 1
              /\ out' = <<Event("message", "CHAT", "general", {"s1", "s2"})>>
       /\ ( /\ BothInGeneral
            /\ handleDisconnect("s2") ) =>
              /\ ActiveIn(rooms', "general") = {"s1"}
              /\ Len(rooms'["general"].activeUsers) = 1
              /\ out'[1] = Event("message", "LEAVE", "general", {"s1"})
              /\ out'[2] = Event("userStatus", "left", "general", {"s1"})
              /\ "s2" \notin DOMAIN userSessions']_vars

\* C25: the end of the walk: s2 gone after the message was counted
C25_Witness ==
    /\ conn = [c \in SessionIds |-> IF c = "s1" THEN "connected" ELSE "closed"]
    /\ DOMAIN rooms = {"general"}
    /\ ActiveIn(rooms, "general") = {"s1"}
    /\ rooms["general"].messageCount = 1
    /\ DOMAIN userSessions = {"s1"}
    /\ Len(out) = 3 /\ out[1] = Event("message", "LEAVE", "general", {"s1"})


(***************************************************************************)
(* Sessions that fall silent.                                              *)
(***************************************************************************)
\* C26: a session with a record or a room entry is in time without both,
\* whether or not any request arrives.
C26_StaleEventuallySwept ==
    \A c \in SessionIds :
        (c \in DOMAIN userSessions \/ RoomsOf(c) # {})
            ~> (c \notin DOMAIN userSessions /\ RoomsOf(c) = {})


BackoffDelay(n) ==
    CASE n = 0 -> 768000
      [] n = 1 -> 1152000
      [] n = 2 -> 1728000
      [] n = 3 -> 2592000
      [] n = 4 -> 3888000
      [] OTHER -> 7680000

RECURSIVE Casts(_)
Casts(o) ==
    IF o = <<>> THEN <<>>
    ELSE IF Head(o).ev \in {"message", "userStatus"}
         THEN <<Cast(Head(o).ev, Head(o).type, Head(o).room)>> \o Casts(Tail(o))
         ELSE Casts(Tail(o))

\* C29: given the same requests, the NestJS and the Spring Boot registry
\* hold the same rooms among the ids the requests name, with the same
\* entries in each, and their last handlers broadcast the same messages.
C29_BackendsAgree ==
    /\ \A r \in DualRoomIds :
           /\ r \in DOMAIN rooms <=> r \in DOMAIN springRooms
           /\ r \in DOMAIN rooms /\ r \in DOMAIN springRooms =>
                  /\ Range(rooms[r].activeUsers) = springRooms[r].activeUsers
                  /\ rooms[r].messageCount = springRooms[r].messageCount
    /\ Casts(out) = springOut


(***************************************************************************)
(* Validation and sanitization.                                            *)
(***************************************************************************)
\* C30: a send with a sender and a room id of the right shape and a content
\* that is not blank and has 1 to 1000 characters as received is accepted: the room's count goes up
\* if the room exists and the CHAT message is broadcast, whatever the
\* sanitization does to the content.
C30_RawContentValidated ==
    [][\A c \in SessionIds : \A r \in JoinRoomIds, u \in UsernamesOf(c), m \in Contents :
          handleSendMessage(c, r, u, m) /\ StrLen(m) >= 1 /\ StrLen(m) <= 1000
              /\ Trim(m) # <<>> /\ usernamePattern(Chars(u)) =>
                  /\ rooms' = incrementMessageCount(rooms, r)
                  /\ out' = <<Event("message", "CHAT", r, InSocketRoom(socketRooms, r))>>]_vars


(***************************************************************************)
(* A join running against a leave or a sweep.  A caller is a session: it   *)
(* joins a room ("start" to "done") and later leaves it ("done" back to    *)
(* "start").  Spring Boot runs RoomService.removeUserFromRoom on a thread, *)
(* one call on the room or on the map at a time; NestJS runs               *)
(* RoomsService.removeUserFromRoom and cleanupInactiveUsers, which hold no *)
(* await, in one piece.  A NestJS handler starts in a task of its own, for  *)
(* the packet or the HTTP request that asks for it, and the continuation   *)
(* of an await on a settled promise runs before the next task starts.      *)
(***************************************************************************)
MaxObjects == 3          \* room objects created in one behaviour
RaceRoomIds == {"r1"}

\* Array.prototype.splice / Set.removeIf on the members of a room object
WithoutUsers(room, S) ==
    [room EXCEPT !.activeUsers = SelectSeqBy(@, {x \in Range(@) : x \notin S})]

\* Map.delete / Map.remove
DropKey(reg, roomId) == [r \in (DOMAIN reg) \ {roomId} |-> reg[r]]

\* RoomService.removeUserFromRoom: `ChatRoom room = rooms.get(roomId)`.
SpringLeaveGet(t) ==
    /\ backend = "spring" /\ pc[t] = "done"
    /\ IF held[t].roomId \in DOMAIN registry
       THEN /\ held' = [held EXCEPT ![t].room = registry[held[t].roomId]]
            /\ pc' = [pc EXCEPT ![t] = "removing"]
       ELSE /\ held' = held
            /\ pc' = [pc EXCEPT ![t] = "start"]
    /\ UNCHANGED <<now, backend, registry, heap, sendVars, dualVars, hookVars, chatVars, limiterVars>>

\* RoomService.removeUserFromRoom: `room.removeUser(sessionId)`.
SpringRemoveUser(t) ==
    /\ backend = "spring" /\ pc[t] = "removing"
    /\ heap' = [heap EXCEPT ![held[t].room] = WithoutUsers(@, {t})]
    /\ pc' = [pc EXCEPT ![t] = "checking"]
    /\ UNCHANGED <<now, backend, registry, held, sendVars, dualVars, hookVars, chatVars, limiterVars>>

\* RoomService.removeUserFromRoom: `room.isEmpty() && !isDefaultRoom(roomId)`.
SpringIsEmpty(t) ==
    /\ backend = "spring" /\ pc[t] = "checking"
    /\ pc' = [pc EXCEPT ![t] =
                 IF heap[held[t].room].activeUsers = <<>>
                       /\ ~springIsDefaultRoom(held[t].roomId)
                 THEN "deleting" ELSE "start"]
    /\ UNCHANGED <<now, backend, registry, heap, held, sendVars, dualVars, hookVars, chatVars, limiterVars>>

\* RoomService.removeUserFromRoom: `rooms.remove(roomId)`.
SpringRoomsRemove(t) ==
    /\ backend = "spring" /\ pc[t] = "deleting"
    /\ registry' = DropKey(registry, held[t].roomId)
    /\ pc' = [pc EXCEPT ![t] = "start"]
    /\ UNCHANGED <<now, backend, heap, held, sendVars, dualVars, hookVars, chatVars, limiterVars>>

\* no handler is waiting at an await
NoneAwaiting == \A t \in DOMAIN pc : pc[t] # "awaiting"

\* RoomsService.removeUserFromRoom.
NestRemoveUserFromRoom(t) ==
    /\ backend = "nest" /\ pc[t] = "done" /\ NoneAwaiting
    /\ LET roomId == held[t].roomId
       IN  IF roomId \notin DOMAIN registry
                \/ t \notin Range(heap[registry[roomId]].activeUsers)
           THEN UNCHANGED <<heap, registry>>
           ELSE /\ heap' = [heap EXCEPT ![registry[roomId]] = WithoutUsers(@, {t})]
                /\ registry' =
                       IF heap'[registry[roomId]].activeUsers = <<>> /\ ~isDefaultRoom(roomId)
                       THEN DropKey(registry, roomId) ELSE registry
    /\ pc' = [pc EXCEPT ![t] = "start"]
    /\ UNCHANGED <<now, backend, held, sendVars, dualVars, hookVars, chatVars, limiterVars>>

\* the callers a sweep has put out of their room
Swept(stale) == [t \in DOMAIN pc |-> IF pc[t] = "done" /\ t \in stale THEN "start" ELSE pc[t]]

\* RoomsService.cleanupInactiveUsers, `stale` being the sessions whose
\* lastActivity is before the cutoff.
NestCleanupInactiveUsers(stale) ==
    /\ backend = "nest" /\ NoneAwaiting
    /\ heap' = [i \in DOMAIN heap |-> WithoutUsers(heap[i], stale)]
    /\ registry' = [r \in {k \in DOMAIN registry :
                              ~(heap'[registry[k]].activeUsers = <<>> /\ ~isDefaultRoom(k))}
                       |-> registry[r]]
    /\ pc' = Swept(stale)
    /\ UNCHANGED <<now, backend, held, sendVars, dualVars, hookVars, chatVars, limiterVars>>

\* RoomService.cleanupInactiveSessions: the stale sessions leave the rooms
\* of the registry; `rooms.remove(room.getId())` names the room's own id,
\* which is no key of the registry.
SpringCleanupInactiveSessions(stale) ==
    /\ backend = "spring"
    /\ heap' = [i \in DOMAIN heap |->
                   IF \E k \in DOMAIN registry : registry[k] = i
                   THEN WithoutUsers(heap[i], stale) ELSE heap[i]]
    /\ pc' = Swept(stale)
    /\ UNCHANGED <<now, backend, registry, held, sendVars, dualVars, hookVars, chatVars, limiterVars>>

InitRace ==
    /\ now = 0
    /\ ChatInit
    /\ LimiterInit
    /\ backend \in Backends
    /\ registry = <<>>
    /\ heap = <<>>
    /\ pc = [t \in ConcCallers |-> "start"]
    /\ held = [t \in ConcCallers |-> [roomId |-> Null, room |-> 0]]
    /\ messageCounts = <<>>
    /\ accepted = <<>>
    /\ loaded = <<>>
    /\ springRooms = <<>>
    /\ springOut = <<>>
    /\ HookIdle

NextRace ==
    \/ \E t \in ConcCallers, r \in RaceRoomIds : 
           Len(heap) < MaxObjects /\ NoneAwaiting /\ NestAddUserToRoom(t, r)
    \/ \E t \in ConcCallers : NestResume(t)
    \/ \E t \in ConcCallers : NestRemoveUserFromRoom(t)
    \/ \E stale \in SUBSET ConcCallers : stale # {} /\ NestCleanupInactiveUsers(stale)
    \/ \E t \in ConcCallers, r \in RaceRoomIds : Len(heap) < MaxObjects /\ SpringGetOrCreate(t, r)
    \/ \E t \in ConcCallers : SpringAddUser(t)
    \/ \E t \in ConcCallers : SpringLeaveGet(t)
    \/ \E t \in ConcCallers : SpringRemoveUser(t)
    \/ \E t \in ConcCallers : SpringIsEmpty(t)
    \/ \E t \in ConcCallers : SpringRoomsRemove(t)
    \/ \E stale \in SUBSET ConcCallers : stale # {} /\ SpringCleanupInactiveSessions(stale)

SpecRace == InitRace /\ [][NextRace]_vars

\* no join, leave or sweep is under way
Quiet == \A t \in ConcCallers : pc[t] \in {"start", "done"}

\* C31: once the joins and leaves that ran together are through, a session
\* whose join succeeded (and which has not left or been swept since) is a
\* member of the room object the registry holds under the room id: no join
\* leaves its session in a room object that is out of the registry.
C31_JoinLandsInRegisteredRoom ==
    Quiet =>
        \A t \in ConcCallers :
            pc[t] = "done" =>
                /\ held[t].roomId \in DOMAIN registry
                /\ t \in Range(heap[registry[held[t].roomId]].activeUsers)


(***************************************************************************)
(* Sends and the room sweep.                                               *)
(***************************************************************************)
\* c is the only socket that has connected, the handler that ran last
\* accepted a chat message, and that was less than m minutes ago
SentWithin(c, m) ==
    /\ conn[c] = "connected"
    /\ \A s \in SessionIds \ {c} : conn[s] = "idle"
    /\ Len(out) = 1 /\ out[1].ev = "message" /\ out[1].type = "CHAT"
    /\ c \in DOMAIN userSessions
    /\ now - userSessions[c].lastActivity < m * 60 * 1000

\* C32: a room sweep with a threshold of m minutes keeps in its room a
\* session that had a chat message accepted less than m minutes before.
C32_SenderSurvivesSweep ==
    [][\A c \in SessionIds, m \in CleanupMinutes :
          SentWithin(c, m) /\ SweepRooms(m) =>
              \A r \in DOMAIN rooms :
                  c \in ActiveIn(rooms, r) => r \in DOMAIN rooms' /\ c \in ActiveIn(rooms', r)]_vars


(***************************************************************************)
(* Room ids and registry keys.                                             *)
(***************************************************************************)
\* C33: every room of a registry has for its own id the key it is stored
\* under, the rooms created by a first join included, on both backends.
C33_IdIsKey ==
    /\ \A r \in DOMAIN rooms : rooms[r].id = r
    /\ \A r \in DOMAIN springRooms : springRooms[r].id = r


(***************************************************************************)
(* Sends and membership.                                                   *)
(***************************************************************************)
\* the events `o` hold a CHAT message for room r
ChatCast(o, r) ==
    \E i \in 1..Len(o) : o[i].ev = "message" /\ o[i].type = "CHAT" /\ o[i].room = r

\* C34: a send by a session that is not among the active users of the room
\* it names broadcasts no CHAT message to that room and leaves the room's
\* messageCount as it was.
C34_SenderIsMember ==
    [][\A c \in SessionIds : \A r \in JoinRoomIds, u \in UsernamesOf(c), m \in Contents :
          c \notin ActiveIn(rooms, r) /\ handleSendMessage(c, r, u, m) =>
              /\ ~ChatCast(out', r)
              /\ r \in DOMAIN rooms => rooms'[r].messageCount = rooms[r].messageCount]_vars


(***************************************************************************)
(* Lockouts of the rate limiter.                                           *)
(***************************************************************************)
\* the operation class checkLimits counts an event under
ClassOf(eventName) ==
    IF eventName \in {"handleUserJoin", "handleUserLeave"} THEN "ROOM_OP" ELSE "MESSAGE"

\* the last call of the limiter was c's and was rejected, and the reset time
\* it reported has not passed
LockedOut(c) ==
    /\ c \in DOMAIN rateLimitStore
    /\ decision.client = c /\ ~decision.allowed
    /\ now <= rateLimitStore[c].resetTime

\* what a call made during a lockout does: it is rejected and moves the
\* reset time, never to an earlier one, to now + the window of the new level
RejectedAgain(c) ==
    /\ ~decision'.allowed
    /\ rateLimitStore'[c].penalties =
           Min(rateLimitStore[c].penalties + 1, limits.penalty.maxPenalties)
    /\ rateLimitStore'[c].resetTime = now + getWindowTime(rateLimitStore'[c].penalties)
    /\ rateLimitStore'[c].resetTime >= rateLimitStore[c].resetTime
    /\ decision'.resetTime = rateLimitStore'[c].resetTime

C36_LockoutEnds ==
    [][\A c \in ThrottleClients, e \in ThrottleEvents :
          (/\ c \in DOMAIN rateLimitStore
           /\ decision.client = c /\ ~decision.allowed
           /\ now > decision.resetTime
           /\ canActivate(c, e))
          => decision'.allowed]_vars

\* C36: a call has been admitted after a lockout was waited out: the entry
\* has a penalty level from its rejections, its last rejection and the
\* window that followed are over, and the call found the counters zeroed
C36_Witness ==
    \E c \in DOMAIN rateLimitStore :
        /\ decision.client = c /\ decision.allowed /\ decision.timestamp = now
        /\ rateLimitStore[c].penalties >= 1
        /\ rejectedAt[c] >= 0
        /\ now > rejectedAt[c] + getWindowTime(rateLimitStore[c].penalties)
        /\ rateLimitStore[c].messageCount + rateLimitStore[c].joinCount = 1
        /\ rateLimitStore[c].resetTime = now + getWindowTime(rateLimitStore[c].penalties)


(***************************************************************************)
(* The counters of the rate limiter.                                       *)
(***************************************************************************)
\* the counters of entry e are within the limits
CountersInRange(e) ==
    /\ e.messageCount >= 0 /\ e.messageCount <= limits.messages.count
    /\ e.joinCount >= 0 /\ e.joinCount <= limits.joins.count

\* C37: every entry of the limiter has its messageCount between 0 and the
\* message limit and its joinCount between 0 and the room-operation limit
\* after every step, and a call that is rejected leaves both counters of
\* its entry as they were.
C37_CountersBounded ==
    [][/\ \A c \in DOMAIN rateLimitStore' : CountersInRange(rateLimitStore'[c])
       /\ \A c \in ThrottleClients, e \in ThrottleEvents :
              c \in DOMAIN rateLimitStore /\ canActivate(c, e) /\ ~decision'.allowed =>
                  /\ rateLimitStore'[c].messageCount = rateLimitStore[c].messageCount
                  /\ rateLimitStore'[c].joinCount = rateLimitStore[c].joinCount]_vars

\* C37: a send has just been rejected with the message counter at its limit
\* and the room-operation counter at its own
C37_Witness ==
    \E c \in DOMAIN rateLimitStore :
        /\ decision.client = c /\ ~decision.allowed /\ decision.event = "handleSendMessage"
        /\ rateLimitStore[c].messageCount = limits.messages.count
        /\ rateLimitStore[c].joinCount = limits.joins.count


(***************************************************************************)
(* The REST side of RoomsService (NestJS): rooms made and deleted by id.   *)
(***************************************************************************)
MaxCreated == 1          \* rooms made by createRoom that exist at a time

\* the rooms createRoom made: those stored under a generated id
Created(rs) == {r \in DOMAIN rs : \E n \in 1..Len(Uuids) : Uuids[n] = r}

\* deleteRoom without the test for the default room
deleteRoom_any(roomId) ==
    /\ rooms' = [r \in (DOMAIN rooms) \ {roomId} |-> rooms[r]]
    /\ out' = <<>>
    /\ repeat' = FALSE
    /\ removed' = FALSE
    /\ UNCHANGED <<now, conn, clientData, socketRooms, userSessions>>
    /\ UNCHANGED <<limiterVars, concVars>>

\* POST rooms: RoomsService.createRoom stores the room under uuidv4()
createRoom ==
    /\ Cardinality(Created(rooms)) < MaxCreated
    /\ LET id == randomUUID(rooms)
       IN  rooms' = [r \in (DOMAIN rooms) \cup {id} |-> IF r = id THEN NewRoom(id) ELSE rooms[r]]
    /\ out' = <<>>
    /\ repeat' = FALSE
    /\ removed' = FALSE
    /\ UNCHANGED <<now, conn, clientData, socketRooms, userSessions>>
    /\ UNCHANGED <<limiterVars, concVars>>

\* DELETE rooms/:id: RoomsService.deleteRoom
deleteRoom(roomId) ==
    /\ rooms' = IF roomId \in DOMAIN rooms /\ roomId # "general"
                THEN [r \in (DOMAIN rooms) \ {roomId} |-> rooms[r]]
                ELSE rooms
    /\ out' = <<>>
    /\ repeat' = FALSE
    /\ removed' = FALSE
    /\ UNCHANGED <<now, conn, clientData, socketRooms, userSessions>>
    /\ UNCHANGED <<limiterVars, concVars>>

\* the ids a DELETE names
DeleteIds == {"general", "dev", Uuids[1]}

\* the sockets that talk to the gateway while the REST calls come in
RoomsSessions == {"s1"}

NextRooms ==
    \/ \E c \in RoomsSessions : handleConnection(c)
    \/ \E c \in RoomsSessions : \E r \in JoinRoomIds, u \in UsernamesOf(c) : handleUserJoin(c, r, u)
    \/ \E c \in RoomsSessions : \E r \in JoinRoomIds, u \in UsernamesOf(c) : handleUserLeave(c, r, u)
    \/ \E c \in RoomsSessions : handleDisconnect(c)
    \/ \E c \in RoomsSessions : \E r \in JoinRoomIds, u \in UsernamesOf(c) :
           handleSendMessage(c, r, u, Hi)
    \/ \E m \in CleanupMinutes : SweepRooms(m)
    \/ createRoom
    \/ \E r \in DeleteIds : deleteRoom(r)
    \/ Tick

SpecRooms == Init /\ [][NextRooms]_vars

\* C38: the NestJS registry has the room 'general' from construction on and
\* keeps the same one: no step takes it out of the registry, gives it
\* another id or starts its messageCount anew.
C38_GeneralStays ==
    /\ "general" \in DOMAIN rooms
    /\ [][/\ "general" \in DOMAIN rooms'
          /\ rooms'["general"].id = "general"
          /\ rooms'["general"].messageCount >= rooms["general"].messageCount]_vars

\* C38: 'general' stands, empty and with its one message counted, after
\* its member has gone and time has passed
C38_Witness ==
    /\ "general" \in DOMAIN rooms
    /\ rooms["general"].activeUsers = <<>>
    /\ rooms["general"].messageCount = 1
    /\ \A c \in RoomsSessions : conn[c] = "closed"
    /\ Created(rooms) = {}
    /\ now > 0


(***************************************************************************)
(* Manual disconnection of the frontend.                                   *)
(***************************************************************************)
\* C39: the close of a connection that disconnect() has shut down starts no
\* reconnection and leaves the status at DISCONNECTED: it sets no timer and
\* does not turn the status to RECONNECTING or ERROR.
C39_DisconnectSettles ==
    [][\A t \in Tabs :
          socket[t] = "closing" /\ (\E code \in CloseCodes : onWebSocketClose(t, code)) =>
              /\ reconnectTimeout'[t] = 0
              /\ connectionStatus'[t] = "DISCONNECTED"]_vars

====
